---------------------------- MODULE Spec2Model ----------------------------
(***************************************************************************)
(* TheRock CI run-output layout: bucket resolution (_retrieve_bucket_info) *)
(* and the RunOutputRoot path accessors of                                 *)
(* build_tools/_therock_utils/run_outputs.py.                              *)
(*                                                                         *)
(* A Python str is a sequence of one-character strings, so that           *)
(* concatenation, split("/") and strptime work on the characters.  Python  *)
(* None is the one-element sequence None, which no str equals.  The name   *)
(* of a raised exception is a TLA+ string, "None" when nothing was raised. *)
(***************************************************************************)
EXTENDS Integers, Sequences, FiniteSets, TLC

None == <<"None">>

(***************************************************************************)
(* String literals of the source.                                          *)
(***************************************************************************)
str_slash == <<"/">>
str_hyphen == <<"-">>
str_Z == <<"Z">>
str_ROCm ==
    <<"R", "O", "C", "m">>
str_TheRock ==
    <<"T", "h", "e", "R", "o", "c", "k">>
str_ROCm_TheRock ==
    <<"R", "O", "C", "m", "/", "T", "h", "e", "R", "o", "c", "k">>
str_therock_releases_internal ==
    <<"t", "h", "e", "r", "o", "c", "k", "-", "r", "e", "l", "e", "a", "s", "e", "s", "-", "i", "n", "t", "e", "r", "n", "a", "l">>
str_true ==
    <<"t", "r", "u", "e">>
str_false ==
    <<"f", "a", "l", "s", "e">>
str_therock_ ==
    <<"t", "h", "e", "r", "o", "c", "k", "-">>
str__artifacts ==
    <<"-", "a", "r", "t", "i", "f", "a", "c", "t", "s">>
str_therock_ci_artifacts ==
    <<"t", "h", "e", "r", "o", "c", "k", "-", "c", "i", "-", "a", "r", "t", "i", "f", "a", "c", "t", "s">>
str_therock_artifacts ==
    <<"t", "h", "e", "r", "o", "c", "k", "-", "a", "r", "t", "i", "f", "a", "c", "t", "s">>
str_therock_artifacts_internal ==
    <<"t", "h", "e", "r", "o", "c", "k", "-", "a", "r", "t", "i", "f", "a", "c", "t", "s", "-", "i", "n", "t", "e", "r", "n", "a", "l">>
str_therock_ci_artifacts_external ==
    <<"t", "h", "e", "r", "o", "c", "k", "-", "c", "i", "-", "a", "r", "t", "i", "f", "a", "c", "t", "s", "-", "e", "x", "t", "e", "r", "n", "a", "l">>
str_therock_artifacts_external ==
    <<"t", "h", "e", "r", "o", "c", "k", "-", "a", "r", "t", "i", "f", "a", "c", "t", "s", "-", "e", "x", "t", "e", "r", "n", "a", "l">>
str_api_repos ==
    <<"h", "t", "t", "p", "s", ":", "/", "/", "a", "p", "i", ".", "g", "i", "t", "h", "u", "b", ".", "c", "o", "m", "/", "r", "e", "p", "o", "s", "/">>
str_actions_runs ==
    <<"/", "a", "c", "t", "i", "o", "n", "s", "/", "r", "u", "n", "s", "/">>

(***************************************************************************)
(* Python built-ins used by the source.                                    *)
(***************************************************************************)
\* bool(s) of a str or None: None and "" are falsy.
truthy(s) ==
    s # None /\ s # <<>>

\* s.split(sep) for a one-character separator.
\* A split at the first separator only, always into two parts.
split_once(s, sep) ==
    IF \E i \in 1..Len(s) : s[i] = sep
    THEN LET i == CHOOSE k \in 1..Len(s) :
                     s[k] = sep /\ \A j \in 1..(k - 1) : s[j] # sep
         IN  <<SubSeq(s, 1, i - 1), SubSeq(s, i + 1, Len(s))>>
    ELSE <<s, <<>>>>

RECURSIVE split(_, _)
split(s, sep) ==
    IF \E i \in 1..Len(s) : s[i] = sep
    THEN LET i == CHOOSE k \in 1..Len(s) :
                      s[k] = sep /\ \A j \in 1..(k - 1) : s[j] # sep
         IN  <<SubSeq(s, 1, i - 1)>> \o split(SubSeq(s, i + 1, Len(s)), sep)
    ELSE <<s>>

Digits == <<"0", "1", "2", "3", "4", "5", "6", "7", "8", "9">>

IsDigit(c) ==
    \E i \in 1..Len(Digits) : Digits[i] = c

DigitVal(c) ==
    (CHOOSE i \in 1..Len(Digits) : Digits[i] = c) - 1

\* The number of consecutive digits of s from position p on.
RECURSIVE DigitRun(_, _)
DigitRun(s, p) ==
    IF p <= Len(s) /\ IsDigit(s[p]) THEN 1 + DigitRun(s, p + 1) ELSE 0

RECURSIVE ToInt(_)
ToInt(ds) ==
    IF ds = <<>> THEN 0
    ELSE 10 * ToInt(SubSeq(ds, 1, Len(ds) - 1)) + DigitVal(ds[Len(ds)])

(***************************************************************************)
(* datetime: a record of the six fields; NoDatetime is Python None.  Both  *)
(* datetimes compared by the source are UTC, so <= is the lexicographic    *)
(* order of the fields.                                                    *)
(***************************************************************************)
NoDatetime ==
    [year |-> -1, month |-> -1, day |-> -1, hour |-> -1, minute |-> -1, second |-> -1]

IsLeap(y) ==
    (y % 4 = 0 /\ y % 100 # 0) \/ y % 400 = 0

DaysInMonth(y, m) ==
    IF m = 2 THEN (IF IsLeap(y) THEN 29 ELSE 28)
    ELSE IF m \in {4, 6, 9, 11} THEN 30 ELSE 31

\* A strptime field: a run of minlen..maxlen digits at p whose value is in lo..hi.
Field(s, p, minlen, maxlen, lo, hi) ==
    LET n == DigitRun(s, p)
        v == ToInt(SubSeq(s, p, p + n - 1))
    IN  [ok |-> n >= minlen /\ n <= maxlen /\ v >= lo /\ v <= hi,
         val |-> v,
         next |-> p + n]

Literal(s, p, c) ==
    p <= Len(s) /\ s[p] = c

\* datetime.strptime(s, "%Y-%m-%dT%H:%M:%SZ"); ok is FALSE where it raises ValueError.
strptime(s) ==
    LET Y == Field(s, 1, 4, 4, 0, 9999)
        m == Field(s, Y.next + 1, 1, 2, 1, 12)
        d == Field(s, m.next + 1, 1, 2, 1, 31)
        H == Field(s, d.next + 1, 1, 2, 0, 23)
        M == Field(s, H.next + 1, 1, 2, 0, 59)
        S == Field(s, M.next + 1, 1, 2, 0, 61)
        ok == /\ Y.ok /\ Literal(s, Y.next, "-")
              /\ m.ok /\ Literal(s, m.next, "-")
              /\ d.ok /\ Literal(s, d.next, "T")
              /\ H.ok /\ Literal(s, H.next, ":")
              /\ M.ok /\ Literal(s, M.next, ":")
              /\ S.ok /\ Literal(s, S.next, "Z")
              /\ S.next = Len(s)
              /\ Y.val >= 1 /\ d.val <= DaysInMonth(Y.val, m.val) /\ S.val <= 59
    IN  IF ok
        THEN [ok |-> TRUE,
              dt |-> [year |-> Y.val, month |-> m.val, day |-> d.val,
                      hour |-> H.val, minute |-> M.val, second |-> S.val]]
        ELSE [ok |-> FALSE, dt |-> NoDatetime]

\* a < b: the comparison with the equal instant left out.
datetime_lt(a, b) ==
    LET ka == <<a.year, a.month, a.day, a.hour, a.minute, a.second>>
        kb == <<b.year, b.month, b.day, b.hour, b.minute, b.second>>
    IN  \E i \in 1..6 : ka[i] < kb[i] /\ \A j \in 1..(i - 1) : ka[j] = kb[j]

\* a <= b for two UTC datetimes.
datetime_le(a, b) ==
    LET ka == <<a.year, a.month, a.day, a.hour, a.minute, a.second>>
        kb == <<b.year, b.month, b.day, b.hour, b.minute, b.second>>
    IN  \/ ka = kb
        \/ \E i \in 1..6 : ka[i] < kb[i] /\ \A j \in 1..(i - 1) : ka[j] = kb[j]

\* datetime.fromisoformat("2025-11-11T16:18:48+00:00")
_BUCKET_CUTOVER_DATE ==
    [year |-> 2025, month |-> 11, day |-> 11, hour |-> 16, minute |-> 18, second |-> 48]

(***************************************************************************)
(* os.environ and the GitHub REST API.                                     *)
(***************************************************************************)
\* os.getenv(name, default) on the environment env.
getenv(env, name, default) ==
    IF env[name] = None THEN default ELSE env[name]

\* A workflow-run dict of the API; NoWorkflowRun is Python None.
NoWorkflowRun ==
    [id |-> None, head_repository |-> [full_name |-> None], updated_at |-> None]

WorkflowRun(id, full_name, updated_at) ==
    [id |-> id, head_repository |-> [full_name |-> full_name], updated_at |-> updated_at]

\* What urlopen and json.loads do with one request: urlopen raises
\* (raises # "None"), or the response has a status and a body, which is JSON
\* (a workflow-run dict) or not (json = NoWorkflowRun, valid_json = FALSE).
Response(raises, status, valid_json, json) ==
    [raises |-> raises, status |-> status, valid_json |-> valid_json, json |-> json]

\* gha_send_request with a status other than 200 answered by None, not raised.
gha_send_request_swallowing_status(url, response) ==
    IF response.raises # "None"
    THEN [raised |-> response.raises, value |-> NoWorkflowRun]
    ELSE IF response.status # 200
    THEN [raised |-> "None", value |-> NoWorkflowRun]
    ELSE IF ~response.valid_json
    THEN [raised |-> "JSONDecodeError", value |-> NoWorkflowRun]
    ELSE [raised |-> "None", value |-> response.json]

gha_send_request(url, response) ==
    IF response.raises # "None"
    THEN [raised |-> response.raises, value |-> NoWorkflowRun]
    ELSE IF response.status = 403
    THEN [raised |-> "Exception", value |-> NoWorkflowRun]
    ELSE IF response.status # 200
    THEN [raised |-> "Exception", value |-> NoWorkflowRun]
    ELSE IF ~response.valid_json
    THEN [raised |-> "JSONDecodeError", value |-> NoWorkflowRun]
    ELSE [raised |-> "None", value |-> response.json]

\* The URL of the repository's runs, the run id left out.
workflow_run_url_without_run_id(github_repository, workflow_run_id) ==
    str_api_repos \o github_repository \o str_actions_runs

workflow_run_url(github_repository, workflow_run_id) ==
    str_api_repos \o github_repository \o str_actions_runs \o workflow_run_id

gha_query_workflow_run_by_id(github_repository, workflow_run_id, response) ==
    gha_send_request(workflow_run_url(github_repository, workflow_run_id), response)

(***************************************************************************)
(* _retrieve_bucket_info                                                   *)
(***************************************************************************)
\* is_pr_from_fork with IS_PR_FROM_FORK consulted before the metadata.
is_pr_from_fork_of_env_first(github_repository, workflow_run, env) ==
    IF env["IS_PR_FROM_FORK"] # None
    THEN env["IS_PR_FROM_FORK"] = str_true
    ELSE /\ workflow_run # NoWorkflowRun
         /\ workflow_run.head_repository.full_name # github_repository

\* is_pr_from_fork with "true" as the default of IS_PR_FROM_FORK.
is_pr_from_fork_of_default_true(github_repository, workflow_run, env) ==
    IF workflow_run # NoWorkflowRun
    THEN workflow_run.head_repository.full_name # github_repository
    ELSE getenv(env, "IS_PR_FROM_FORK", str_true) = str_true

\* is_pr_from_fork, from the metadata when there is any, else from the environment.
is_pr_from_fork_of(github_repository, workflow_run, env) ==
    IF workflow_run # NoWorkflowRun
    THEN workflow_run.head_repository.full_name # github_repository
    ELSE getenv(env, "IS_PR_FROM_FORK", str_false) = str_true

\* external_repo with the fork test left out.
external_repo_of_ignoring_fork(owner, repo_name, is_pr_from_fork) ==
    IF repo_name = str_TheRock /\ owner = str_ROCm
    THEN <<>>
    ELSE owner \o str_hyphen \o repo_name \o str_slash

\* external_repo with the trailing slash left out.
external_repo_of_without_slash(owner, repo_name, is_pr_from_fork) ==
    IF repo_name = str_TheRock /\ owner = str_ROCm /\ ~is_pr_from_fork
    THEN <<>>
    ELSE owner \o str_hyphen \o repo_name

external_repo_of(owner, repo_name, is_pr_from_fork) ==
    IF repo_name = str_TheRock /\ owner = str_ROCm /\ ~is_pr_from_fork
    THEN <<>>
    ELSE owner \o str_hyphen \o repo_name \o str_slash

\* The date test with an unknown date taken as legacy.
is_legacy_date_unknown_is_legacy(curr_commit_dt) ==
    curr_commit_dt = NoDatetime \/ datetime_le(curr_commit_dt, _BUCKET_CUTOVER_DATE)

\* "curr_commit_dt and curr_commit_dt <= _BUCKET_CUTOVER_DATE"
is_legacy_date(curr_commit_dt) ==
    curr_commit_dt # NoDatetime /\ datetime_le(curr_commit_dt, _BUCKET_CUTOVER_DATE)

\* bucket with RELEASE_TYPE honoured for ROCm/TheRock only.
bucket_of_release_type_canonical_only(owner, repo_name, is_pr_from_fork, external_repo, release_type, curr_commit_dt) ==
    IF truthy(release_type) /\ external_repo = <<>>
    THEN str_therock_ \o release_type \o str__artifacts
    ELSE IF external_repo = <<>>
    THEN (IF is_legacy_date(curr_commit_dt)
          THEN str_therock_artifacts
          ELSE str_therock_ci_artifacts)
    ELSE IF /\ repo_name = str_therock_releases_internal
            /\ owner = str_ROCm
            /\ ~is_pr_from_fork
    THEN str_therock_artifacts_internal
    ELSE (IF is_legacy_date(curr_commit_dt)
          THEN str_therock_artifacts_external
          ELSE str_therock_ci_artifacts_external)

\* bucket with the fork test of the internal-releases rule left out.
bucket_of_internal_any_fork(owner, repo_name, is_pr_from_fork, external_repo, release_type, curr_commit_dt) ==
    IF truthy(release_type)
    THEN str_therock_ \o release_type \o str__artifacts
    ELSE IF external_repo = <<>>
    THEN (IF is_legacy_date(curr_commit_dt)
          THEN str_therock_artifacts
          ELSE str_therock_ci_artifacts)
    ELSE IF /\ repo_name = str_therock_releases_internal
            /\ owner = str_ROCm
    THEN str_therock_artifacts_internal
    ELSE (IF is_legacy_date(curr_commit_dt)
          THEN str_therock_artifacts_external
          ELSE str_therock_ci_artifacts_external)

\* bucket with the date rule applied to ROCm/TheRock runs only.
bucket_of_date_rule_canonical_only(owner, repo_name, is_pr_from_fork, external_repo, release_type, curr_commit_dt) ==
    IF truthy(release_type)
    THEN str_therock_ \o release_type \o str__artifacts
    ELSE IF external_repo = <<>>
    THEN (IF is_legacy_date(curr_commit_dt)
          THEN str_therock_artifacts
          ELSE str_therock_ci_artifacts)
    ELSE IF /\ repo_name = str_therock_releases_internal
            /\ owner = str_ROCm
            /\ ~is_pr_from_fork
    THEN str_therock_artifacts_internal
    ELSE str_therock_ci_artifacts_external

bucket_of(owner, repo_name, is_pr_from_fork, external_repo, release_type, curr_commit_dt) ==
    IF truthy(release_type)
    THEN str_therock_ \o release_type \o str__artifacts
    ELSE IF external_repo = <<>>
    THEN (IF is_legacy_date(curr_commit_dt)
          THEN str_therock_artifacts
          ELSE str_therock_ci_artifacts)
    ELSE IF /\ repo_name = str_therock_releases_internal
            /\ owner = str_ROCm
            /\ ~is_pr_from_fork
    THEN str_therock_artifacts_internal
    ELSE (IF is_legacy_date(curr_commit_dt)
          THEN str_therock_artifacts_external
          ELSE str_therock_ci_artifacts_external)

\* What a call leaves when it raises: the exception and the requests made so far.
Raised(exc, repo, requests) ==
    [raised |-> exc, github_repository |-> repo, requests |-> requests,
     has_workflow_run |-> FALSE, is_pr_from_fork |-> FALSE,
     curr_commit_dt |-> NoDatetime, external_repo |-> None, bucket |-> None]

\* The call _retrieve_bucket_info(github_repository, workflow_run_id, workflow_run)
\* in environment env, where response is what the API answers if it is asked.
\* The result holds the returned tuple (external_repo, bucket), the exception
\* raised instead if any, the API requests made, and the locals at the return.
_retrieve_bucket_info(github_repository, workflow_run_id, workflow_run, env, response) ==
    LET repo == IF truthy(github_repository)
                THEN github_repository
                ELSE getenv(env, "GITHUB_REPOSITORY", str_ROCm_TheRock)
        lookup == workflow_run = NoWorkflowRun /\ workflow_run_id # None
        requests == IF lookup
                    THEN <<workflow_run_url(repo, workflow_run_id)>>
                    ELSE <<>>
        fetched == IF lookup
                   THEN gha_query_workflow_run_by_id(repo, workflow_run_id, response)
                   ELSE [raised |-> "None", value |-> workflow_run]
        run == fetched.value
        parsed == IF run # NoWorkflowRun
                  THEN strptime(run.updated_at)
                  ELSE [ok |-> TRUE, dt |-> NoDatetime]
        fork == is_pr_from_fork_of(repo, run, env)
        parts == split(repo, "/")
        owner == parts[1]
        repo_name == parts[2]
        external_repo == external_repo_of(owner, repo_name, fork)
        release_type == env["RELEASE_TYPE"]
    IN  IF fetched.raised # "None" THEN Raised(fetched.raised, repo, requests)
        ELSE IF ~parsed.ok THEN Raised("ValueError", repo, requests)
        ELSE IF Len(parts) # 2 THEN Raised("ValueError", repo, requests)
        ELSE [raised |-> "None", github_repository |-> repo, requests |-> requests,
              has_workflow_run |-> run # NoWorkflowRun,
              is_pr_from_fork |-> fork,
              curr_commit_dt |-> parsed.dt,
              external_repo |-> external_repo,
              bucket |-> bucket_of(owner, repo_name, fork, external_repo,
                                   release_type, parsed.dt)]

(***************************************************************************)
(* Inputs.  The repositories, head repositories and environment values     *)
(* are those of the tests and of the rules of _retrieve_bucket_info; the   *)
(* run dates lie MaxSkew seconds around the cutover, plus the two dates    *)
(* of the tests and one string strptime rejects.                           *)
(***************************************************************************)
MaxSkew == 1

str_ROCm_therock_releases_internal ==
    <<"R", "O", "C", "m", "/", "t", "h", "e", "r", "o", "c", "k", "-", "r", "e", "l", "e", "a", "s", "e", "s", "-", "i", "n", "t", "e", "r", "n", "a", "l">>
str_ROCm_therock_releases_internal_alt ==
    <<"R", "O", "C", "m", "-", "t", "h", "e", "r", "o", "c", "k", "/", "r", "e", "l", "e", "a", "s", "e", "s", "-", "i", "n", "t", "e", "r", "n", "a", "l">>
str_ROCm_TheRock_extra ==
    <<"R", "O", "C", "m", "/", "T", "h", "e", "R", "o", "c", "k", "/", "e", "x", "t", "r", "a">>
str_SomeOrg_SomeRepo ==
    <<"S", "o", "m", "e", "O", "r", "g", "/", "S", "o", "m", "e", "R", "e", "p", "o">>
str_SomeUser_TheRock ==
    <<"S", "o", "m", "e", "U", "s", "e", "r", "/", "T", "h", "e", "R", "o", "c", "k">>
str_yes ==
    <<"y", "e", "s">>
str_maybe ==
    <<"m", "a", "y", "b", "e">>
str_nightly ==
    <<"n", "i", "g", "h", "t", "l", "y">>
str_release ==
    <<"r", "e", "l", "e", "a", "s", "e">>
str_run_id ==
    <<"1", "2", "3">>
str_cutover_minute ==
    <<"2", "0", "2", "5", "-", "1", "1", "-", "1", "1", "T", "1", "6", ":", "1", "8", ":">>
str_before_cutover ==
    <<"2", "0", "2", "5", "-", "1", "0", "-", "0", "1", "T", "1", "2", ":", "0", "0", ":", "0", "0", "Z">>
str_after_cutover ==
    <<"2", "0", "2", "5", "-", "1", "2", "-", "0", "1", "T", "1", "2", ":", "0", "0", ":", "0", "0", "Z">>
str_iso_offset ==
    <<"2", "0", "2", "5", "-", "1", "1", "-", "1", "1", "T", "1", "6", ":", "1", "8", ":", "4", "8", "+", "0", "0", ":", "0", "0">>

\* "%02d" % n
TwoDigits(n) ==
    <<Digits[(n \div 10) + 1], Digits[(n % 10) + 1]>>

\* The cutover instant plus k seconds, as the API writes it.
NearCutover(k) ==
    str_cutover_minute \o TwoDigits(_BUCKET_CUTOVER_DATE.second + k) \o str_Z

Repositories ==
    {None, str_ROCm_TheRock, str_ROCm_therock_releases_internal,
     str_ROCm_therock_releases_internal_alt, str_SomeOrg_SomeRepo, str_TheRock,
     str_ROCm_TheRock_extra}

HeadRepositories ==
    {str_ROCm_TheRock, str_ROCm_therock_releases_internal, str_SomeOrg_SomeRepo,
     str_SomeUser_TheRock}

UpdatedAts ==
    {NearCutover(k) : k \in (0 - MaxSkew)..MaxSkew}
        \cup {str_before_cutover, str_after_cutover, str_iso_offset}

WorkflowRuns ==
    {WorkflowRun(str_run_id, h, u) : h \in HeadRepositories, u \in UpdatedAts}

NoResponse ==
    Response("None", 0, FALSE, NoWorkflowRun)

Responses ==
    {Response("None", 200, TRUE, w) : w \in WorkflowRuns}
        \cup {Response("HTTPError", 0, FALSE, NoWorkflowRun),
              Response("None", 403, FALSE, NoWorkflowRun),
              Response("None", 200, FALSE, NoWorkflowRun)}

Environments ==
    [GITHUB_REPOSITORY : {None, str_SomeOrg_SomeRepo},
     IS_PR_FROM_FORK : {None, str_true, str_false, str_yes, str_maybe},
     RELEASE_TYPE : {None, <<>>, str_nightly, str_release}]

(***************************************************************************)
(* RunOutputRoot: the frozen dataclass and its factories.                  *)
(***************************************************************************)
str_local ==
    <<"l", "o", "c", "a", "l">>
str_linux ==
    <<"l", "i", "n", "u", "x">>
str_windows ==
    <<"w", "i", "n", "d", "o", "w", "s">>
str_custom_bucket ==
    <<"c", "u", "s", "t", "o", "m", "-", "b", "u", "c", "k", "e", "t">>

UpperCase ==
    <<"A", "B", "C", "D", "E", "F", "G", "H", "I", "J", "K", "L", "M", "N", "O", "P", "Q", "R", "S", "T", "U", "V", "W", "X", "Y", "Z">>
LowerCase ==
    <<"a", "b", "c", "d", "e", "f", "g", "h", "i", "j", "k", "l", "m", "n", "o", "p", "q", "r", "s", "t", "u", "v", "w", "x", "y", "z">>

\* s.lower()
lower(s) ==
    [i \in 1..Len(s) |->
        IF \E k \in 1..Len(UpperCase) : UpperCase[k] = s[i]
        THEN LowerCase[CHOOSE k \in 1..Len(UpperCase) : UpperCase[k] = s[i]]
        ELSE s[i]]

(***************************************************************************)
(* github_actions_utils.str2bool: the conversion of environment values to  *)
(* booleans.  The values it is given here are str or None, so its          *)
(* isinstance test never fails.                                            *)
(***************************************************************************)
\* s.strip()
RECURSIVE strip(_)
strip(s) ==
    LET Whitespace == {" ", "\t", "\n", "\r"}
    IN  IF s = <<>> THEN s
        ELSE IF Head(s) \in Whitespace THEN strip(Tail(s))
        ELSE IF s[Len(s)] \in Whitespace THEN strip(SubSeq(s, 1, Len(s) - 1))
        ELSE s

str2bool(value) ==
    IF ~truthy(value)
    THEN [raised |-> "None", value |-> FALSE]
    ELSE LET v == lower(strip(value))
             str2bool_true ==
                 {<<"1">>, <<"t", "r", "u", "e">>, <<"t">>, <<"y", "e", "s">>, <<"y">>, <<"o", "n">>, <<"e", "n", "a", "b", "l", "e">>, <<"e", "n", "a", "b", "l", "e", "d">>, <<"f", "o", "u", "n", "d">>}
             str2bool_false ==
                 {<<"0">>, <<"f", "a", "l", "s", "e">>, <<"f">>, <<"n", "o">>, <<"n">>, <<"o", "f", "f">>, <<"d", "i", "s", "a", "b", "l", "e">>, <<"d", "i", "s", "a", "b", "l", "e", "d">>, <<"n", "o", "t", "f", "o", "u", "n", "d">>,
                 <<"n", "o", "n", "e">>, <<"n", "u", "l", "l">>, <<"n", "i", "l">>, <<"u", "n", "d", "e", "f", "i", "n", "e", "d">>, <<"n", "/", "a">>}
         IN  IF v \in str2bool_true THEN [raised |-> "None", value |-> TRUE]
             ELSE IF v \in str2bool_false THEN [raised |-> "None", value |-> FALSE]
             ELSE [raised |-> "ValueError", value |-> FALSE]

\* The dataclass constructor; NoRoot is Python None (no instance).
RunOutputRoot(bucket, external_repo, run_id, platform) ==
    [bucket |-> bucket, external_repo |-> external_repo,
     run_id |-> run_id, platform |-> platform]

NoRoot ==
    RunOutputRoot(None, None, None, None)

\* An attribute assignment that goes through, as on a dataclass that is not frozen.
setattr_unfrozen(self, name, value) ==
    [raised |-> "None",
     self |-> IF name \in DOMAIN self THEN [self EXCEPT ![name] = value] ELSE self]

\* self.name = value.  @dataclass(frozen=True) gives the class a __setattr__
\* that raises FrozenInstanceError (an AttributeError) for every name.
setattr(self, name, value) ==
    [raised |-> "FrozenInstanceError", self |-> self]

\* RunOutputRoot.from_workflow_run, given what _retrieve_bucket_info did (info).
from_workflow_run(run_id, platform, info) ==
    IF info.raised # "None"
    THEN NoRoot
    ELSE RunOutputRoot(info.bucket, info.external_repo, run_id, platform)

\* An argument the caller leaves out, so that the parameter's default applies.
Omitted ==
    <<"Omitted">>

\* for_local with the host system name taken as it is.
for_local_keeping_case(run_id, platform, bucket, system) ==
    RunOutputRoot(IF bucket = Omitted THEN str_local ELSE bucket,
                  <<>>,
                  IF run_id = Omitted THEN str_local ELSE run_id,
                  IF platform = None THEN system ELSE platform)

\* RunOutputRoot.for_local on a host whose platform.system() is system; the
\* defaults are run_id="local", platform=None, bucket="local".
for_local(run_id, platform, bucket, system) ==
    RunOutputRoot(IF bucket = Omitted THEN str_local ELSE bucket,
                  <<>>,
                  IF run_id = Omitted THEN str_local ELSE run_id,
                  IF platform = None THEN lower(system) ELSE platform)

(***************************************************************************)
(* RunOutputRoot: the path accessors.  self is the instance.               *)
(***************************************************************************)
str_s3_scheme ==
    <<"s", "3", ":", "/", "/">>
str_https_scheme ==
    <<"h", "t", "t", "p", "s", ":", "/", "/">>
str_s3_amazonaws_com ==
    <<".", "s", "3", ".", "a", "m", "a", "z", "o", "n", "a", "w", "s", ".", "c", "o", "m", "/">>
str_index_ ==
    <<"/", "i", "n", "d", "e", "x", "-">>
str_html ==
    <<".", "h", "t", "m", "l">>
str_logs ==
    <<"/", "l", "o", "g", "s", "/">>
str_manifests ==
    <<"/", "m", "a", "n", "i", "f", "e", "s", "t", "s", "/">>
str_therock_manifest_json ==
    <<"/", "t", "h", "e", "r", "o", "c", "k", "_", "m", "a", "n", "i", "f", "e", "s", "t", ".", "j", "s", "o", "n">>
str_index_html ==
    <<"/", "i", "n", "d", "e", "x", ".", "h", "t", "m", "l">>
str_build_time_analysis_html ==
    <<"/", "b", "u", "i", "l", "d", "_", "t", "i", "m", "e", "_", "a", "n", "a", "l", "y", "s", "i", "s", ".", "h", "t", "m", "l">>

(***************************************************************************)
(* pathlib on POSIX: a path is its anchor ("", "/" or "//") and its parts. *)
(***************************************************************************)
\* Path(s)
PurePath(s) ==
    [anchor |-> IF Len(s) >= 1 /\ s[1] = "/"
                THEN (IF Len(s) >= 2 /\ s[2] = "/" /\ ~(Len(s) >= 3 /\ s[3] = "/")
                      THEN "//" ELSE "/")
                ELSE "",
     parts |-> SelectSeq(split(s, "/"), LAMBDA c : c # <<>> /\ c # <<".">>)]

\* p / s for a str s: an absolute s replaces p.
joinpath(p, s) ==
    IF PurePath(s).anchor # ""
    THEN PurePath(s)
    ELSE [anchor |-> p.anchor, parts |-> p.parts \o PurePath(s).parts]

\* p.relative_to(base)
relative_to(p, base) ==
    IF /\ p.anchor = base.anchor
       /\ Len(base.parts) <= Len(p.parts)
       /\ SubSeq(p.parts, 1, Len(base.parts)) = base.parts
    THEN [raised |-> "None",
          value |-> [anchor |-> "",
                     parts |-> SubSeq(p.parts, Len(base.parts) + 1, Len(p.parts))]]
    ELSE [raised |-> "ValueError", value |-> PurePath(<<>>)]

\* prefix with external_repo left out.
prefix_without_external_repo(self) ==
    self.run_id \o str_hyphen \o self.platform

prefix(self) ==
    self.external_repo \o self.run_id \o str_hyphen \o self.platform

s3_uri(self) ==
    str_s3_scheme \o self.bucket \o str_slash \o prefix(self)

\* https_url in the path style: the bucket after the host, not in it.
https_url_path_style(self) ==
    <<"h", "t", "t", "p", "s", ":", "/", "/", "s", "3", ".", "a", "m", "a", "z", "o", "n", "a", "w", "s", ".", "c", "o", "m", "/">> \o self.bucket \o str_slash \o prefix(self)

https_url(self) ==
    str_https_scheme \o self.bucket \o str_s3_amazonaws_com \o prefix(self)

\* local_path with external_repo left out.
local_path_without_external_repo(self, staging_dir) ==
    joinpath(staging_dir, self.run_id \o str_hyphen \o self.platform)

local_path(self, staging_dir) ==
    joinpath(staging_dir, prefix(self))

artifact_s3_key(self, filename) ==
    prefix(self) \o str_slash \o filename

artifact_s3_uri(self, filename) ==
    s3_uri(self) \o str_slash \o filename

artifact_https_url(self, filename) ==
    https_url(self) \o str_slash \o filename

artifact_index_s3_key(self, artifact_group) ==
    prefix(self) \o str_index_ \o artifact_group \o str_html

artifact_index_s3_uri(self, artifact_group) ==
    str_s3_scheme \o self.bucket \o str_slash \o artifact_index_s3_key(self, artifact_group)

artifact_index_url(self, artifact_group) ==
    https_url(self) \o str_index_ \o artifact_group \o str_html

\* logs_prefix with the logs kept in a reports directory.
logs_prefix_under_reports(self, artifact_group) ==
    prefix(self) \o <<"/", "r", "e", "p", "o", "r", "t", "s", "/">> \o artifact_group

logs_prefix(self, artifact_group) ==
    prefix(self) \o str_logs \o artifact_group

logs_s3_uri(self, artifact_group) ==
    str_s3_scheme \o self.bucket \o str_slash \o logs_prefix(self, artifact_group)

logs_https_url(self, artifact_group) ==
    https_url(self) \o str_logs \o artifact_group

log_file_s3_key(self, artifact_group, filename) ==
    logs_prefix(self, artifact_group) \o str_slash \o filename

log_index_url(self, artifact_group) ==
    logs_https_url(self, artifact_group) \o str_index_html

build_time_analysis_url(self, artifact_group) ==
    logs_https_url(self, artifact_group) \o str_build_time_analysis_html

manifests_prefix(self, artifact_group) ==
    prefix(self) \o str_manifests \o artifact_group

manifest_s3_key(self, artifact_group) ==
    manifests_prefix(self, artifact_group) \o str_therock_manifest_json

manifest_s3_uri(self, artifact_group) ==
    str_s3_scheme \o self.bucket \o str_slash \o manifest_s3_key(self, artifact_group)

manifest_url(self, artifact_group) ==
    https_url(self) \o str_manifests \o artifact_group \o str_therock_manifest_json

\* The values the storage-key accessors of the class return for one
\* artifact_group and one filename: the class has these seven and no other.
storage_keys(self, artifact_group, filename) ==
    {prefix(self),
     artifact_s3_key(self, filename),
     artifact_index_s3_key(self, artifact_group),
     logs_prefix(self, artifact_group),
     log_file_s3_key(self, artifact_group, filename),
     manifests_prefix(self, artifact_group),
     manifest_s3_key(self, artifact_group)}

(***************************************************************************)
(* ArtifactBackend: LocalDirectoryBackend and S3Backend.  A filesystem is  *)
(* the function from the paths of its files to their contents, the S3      *)
(* store the function from <<bucket, key>> to the object's contents;       *)
(* directories are not modelled (the code creates the ones it writes to).  *)
(* Each method returns the exception it raised ("None": it returned) and   *)
(* the filesystem and store it leaves.                                     *)
(***************************************************************************)
\* p.parent and p.name
path_parent(p) ==
    [anchor |-> p.anchor, parts |-> SubSeq(p.parts, 1, Len(p.parts) - 1)]

path_name(p) ==
    p.parts[Len(p.parts)]

\* shutil.copy2(src, dst)
copy2(fs, src, dst) ==
    (dst :> fs[src]) @@ fs

\* f"{artifact_key}.sha256sum"
sha256sum(artifact_key) ==
    artifact_key \o <<".", "s", "h", "a", "2", "5", "6", "s", "u", "m">>

\* LocalDirectoryBackend(staging_dir, run_root) and S3Backend(run_root)
LocalDirectoryBackend(staging_dir, run_root) ==
    [kind |-> "LocalDirectoryBackend", run_root |-> run_root,
     staging_dir |-> staging_dir, base_path |-> local_path(run_root, staging_dir)]

S3Backend(run_root) ==
    [kind |-> "S3Backend", run_root |-> run_root,
     staging_dir |-> PurePath(<<>>), base_path |-> PurePath(<<>>)]

NoBackend ==
    [kind |-> "none", run_root |-> NoRoot,
     staging_dir |-> PurePath(<<>>), base_path |-> PurePath(<<>>)]

\* LocalDirectoryBackend.download_artifact(artifact_key, dest_path)
local_download_artifact(self, fs, s3, artifact_key, dest_path) ==
    LET src == joinpath(self.base_path, artifact_key)
        copied == copy2(fs, src, dest_path)
        sha_src == joinpath(self.base_path, sha256sum(artifact_key))
    IN  IF src \notin DOMAIN fs
        THEN [raised |-> "FileNotFoundError", fs |-> fs, s3 |-> s3]
        ELSE [raised |-> "None", s3 |-> s3,
              fs |-> IF sha_src \in DOMAIN copied
                     THEN copy2(copied, sha_src,
                                joinpath(path_parent(dest_path), sha256sum(artifact_key)))
                     ELSE copied]

\* LocalDirectoryBackend.upload_artifact(source_path, artifact_key)
local_upload_artifact(self, fs, s3, source_path, artifact_key) ==
    LET dest == joinpath(self.base_path, artifact_key)
        copied == copy2(fs, source_path, dest)
        sha_src == joinpath(path_parent(source_path), sha256sum(path_name(source_path)))
    IN  IF source_path \notin DOMAIN fs
        THEN [raised |-> "FileNotFoundError", fs |-> fs, s3 |-> s3]
        ELSE [raised |-> "None", s3 |-> s3,
              fs |-> IF sha_src \in DOMAIN copied
                     THEN copy2(copied, sha_src,
                                joinpath(self.base_path, sha256sum(artifact_key)))
                     ELSE copied]

\* f"{self.s3_prefix}/{artifact_key}" in self.bucket
s3_object(self, artifact_key) ==
    <<self.run_root.bucket, prefix(self.run_root) \o str_slash \o artifact_key>>

\* S3Backend.download_artifact(artifact_key, dest_path).  The client's
\* download_file raises when the object is absent or the service fails
\* (client_fails), and then leaves nothing at the destination.
s3_download_artifact(self, fs, s3, artifact_key, dest_path, client_fails) ==
    LET object == s3_object(self, artifact_key)
    IN  IF client_fails \/ object \notin DOMAIN s3
        THEN [raised |-> "ClientError", fs |-> fs, s3 |-> s3]
        ELSE [raised |-> "None", fs |-> (dest_path :> s3[object]) @@ fs, s3 |-> s3]

\* S3Backend.upload_artifact(source_path, artifact_key).  The client's
\* upload_file raises when the file is absent or the service fails.
s3_upload_artifact(self, fs, s3, source_path, artifact_key, client_fails) ==
    LET object == s3_object(self, artifact_key)
    IN  IF source_path \notin DOMAIN fs
        THEN [raised |-> "FileNotFoundError", fs |-> fs, s3 |-> s3]
        ELSE IF client_fails
        THEN [raised |-> "S3UploadFailedError", fs |-> fs, s3 |-> s3]
        ELSE [raised |-> "None", fs |-> fs, s3 |-> (object :> fs[source_path]) @@ s3]

(***************************************************************************)
(* artifact_exists and list_artifacts.  They return a value besides the    *)
(* exception raised: returned (a bool) or listed (a list of filenames).    *)
(***************************************************************************)
\* LocalDirectoryBackend.artifact_exists(artifact_key)
local_artifact_exists(self, fs, s3, artifact_key) ==
    [raised |-> "None", fs |-> fs, s3 |-> s3,
     returned |-> joinpath(self.base_path, artifact_key) \in DOMAIN fs]

\* S3Backend.artifact_exists(artifact_key).  The client's head_object raises
\* when the object is absent or the service fails; the method catches every
\* Exception.
s3_artifact_exists(self, fs, s3, artifact_key, client_fails) ==
    LET head_object_raised ==
            IF client_fails \/ s3_object(self, artifact_key) \notin DOMAIN s3
            THEN "ClientError"
            ELSE "None"
    IN  [raised |-> "None", fs |-> fs, s3 |-> s3,
         returned |-> head_object_raised = "None"]

\* s.startswith(t) and s.endswith(t)
startswith(s, t) ==
    Len(t) <= Len(s) /\ SubSeq(s, 1, Len(t)) = t

endswith(s, t) ==
    Len(t) <= Len(s) /\ SubSeq(s, Len(s) - Len(t) + 1, Len(s)) = t

_is_artifact_archive(filename) ==
    LET ARTIFACT_EXTENSIONS == <<<<".", "t", "a", "r", ".", "z", "s", "t">>, <<".", "t", "a", "r", ".", "x", "z">>>>
    IN  \E i \in 1..Len(ARTIFACT_EXTENSIONS) : endswith(filename, ARTIFACT_EXTENSIONS[i])

\* sorted(names) for a set of str: by code point, character by character.
\* The characters are those of the keys, in code-point order.
RECURSIVE sorted(_)
sorted(names) ==
    LET chars == <<"-", ".", "/">> \o Digits \o UpperCase \o <<"_">> \o LowerCase
        ord(c) == CHOOSE i \in 1..Len(chars) : chars[i] = c
        lt(a, b) == \E i \in 1..(Len(a) + 1) :
                       /\ i <= Len(b)
                       /\ \A j \in 1..(i - 1) : a[j] = b[j]
                       /\ i = Len(a) + 1 \/ ord(a[i]) < ord(b[i])
    IN  IF names = {} THEN <<>>
        ELSE LET least == CHOOSE a \in names : \A b \in names \ {a} : lt(a, b)
             IN  <<least>> \o sorted(names \ {least})

\* The test both list_artifacts make on a filename.
is_listed(filename, name_filter) ==
    /\ _is_artifact_archive(filename)
    /\ name_filter # None => startswith(filename, name_filter \o <<"_">>)

\* LocalDirectoryBackend.list_artifacts(name_filter).  iterdir gives the
\* entries directly in base_path: its files, and its directories, which are
\* the first components of the files below it.
local_list_artifacts(self, fs, s3, name_filter) ==
    LET base == self.base_path.parts
        below == {p \in DOMAIN fs : /\ p.anchor = self.base_path.anchor
                                    /\ Len(p.parts) > Len(base)
                                    /\ SubSeq(p.parts, 1, Len(base)) = base}
        iterdir == {p.parts[Len(base) + 1] : p \in below}
    IN  [raised |-> "None", fs |-> fs, s3 |-> s3,
         listed |-> sorted({filename \in iterdir : is_listed(filename, name_filter)})]

\* S3Backend.list_artifacts(name_filter).  The paginator gives the objects
\* of the bucket whose key starts with the prefix, or raises.
s3_list_artifacts(self, fs, s3, name_filter, client_fails) ==
    LET Contents == {o \in DOMAIN s3 : /\ o[1] = self.run_root.bucket
                                       /\ startswith(o[2], prefix(self.run_root))}
        filenames == {LET segments == split(o[2], "/")
                      IN  segments[Len(segments)] : o \in Contents}
    IN  IF client_fails
        THEN [raised |-> "ClientError", fs |-> fs, s3 |-> s3, listed |-> <<>>]
        ELSE [raised |-> "None", fs |-> fs, s3 |-> s3,
              listed |-> sorted({filename \in filenames : is_listed(filename, name_filter)})]

(***************************************************************************)
(* create_backend_from_env(run_id, platform) in environment env, on a host *)
(* whose platform.system() is system, where response is what the API       *)
(* answers if it is asked.  "x or y" takes y when x is None or "".          *)
(***************************************************************************)
\* F(value), with value computed once.
Let(value, F(_)) ==
    CHOOSE r \in {F(v) : v \in {value}} : TRUE

\* create_backend_from_env with GITHUB_RUN_ID consulted before THEROCK_RUN_ID.
create_backend_from_env_github_run_id_first(run_id, platform, env, system, response) ==
    LET local_staging == env["THEROCK_LOCAL_STAGING_DIR"]
        platform_name == IF truthy(platform) THEN platform
                         ELSE getenv(env, "THEROCK_PLATFORM", lower(system))
        id == IF truthy(run_id) THEN run_id
              ELSE getenv(env, "GITHUB_RUN_ID", getenv(env, "THEROCK_RUN_ID", str_local))
    IN  IF truthy(local_staging)
        THEN LET run_root == for_local(id, platform_name, Omitted, system)
             IN  [raised |-> "None", info |-> Raised("None", None, <<>>), run_root |-> run_root,
                  backend |-> LocalDirectoryBackend(PurePath(local_staging), run_root)]
        ELSE Let(_retrieve_bucket_info(None, id, NoWorkflowRun, env, response),
                 LAMBDA info :
                     IF info.raised # "None"
                     THEN [raised |-> info.raised, info |-> info, run_root |-> NoRoot,
                           backend |-> NoBackend]
                     ELSE Let(from_workflow_run(id, platform_name, info),
                              LAMBDA run_root :
                                  [raised |-> "None", info |-> info, run_root |-> run_root,
                                   backend |-> S3Backend(run_root)]))

create_backend_from_env(run_id, platform, env, system, response) ==
    LET local_staging == env["THEROCK_LOCAL_STAGING_DIR"]
        platform_name == IF truthy(platform) THEN platform
                         ELSE getenv(env, "THEROCK_PLATFORM", lower(system))
        id == IF truthy(run_id) THEN run_id
              ELSE getenv(env, "THEROCK_RUN_ID", getenv(env, "GITHUB_RUN_ID", str_local))
    IN  IF truthy(local_staging)
        THEN LET run_root == for_local(id, platform_name, Omitted, system)
             IN  [raised |-> "None", info |-> Raised("None", None, <<>>), run_root |-> run_root,
                  backend |-> LocalDirectoryBackend(PurePath(local_staging), run_root)]
        ELSE Let(_retrieve_bucket_info(None, id, NoWorkflowRun, env, response),
                 LAMBDA info :
                     IF info.raised # "None"
                     THEN [raised |-> info.raised, info |-> info, run_root |-> NoRoot,
                           backend |-> NoBackend]
                     ELSE Let(from_workflow_run(id, platform_name, info),
                              LAMBDA run_root :
                                  [raised |-> "None", info |-> info, run_root |-> run_root,
                                   backend |-> S3Backend(run_root)]))

(***************************************************************************)
(* State.                                                                  *)
(***************************************************************************)
VARIABLES
    environ,    \* os.environ: the three variables the module reads
    call,       \* the last call: its arguments, the API's answer, its result
    prev,       \* the call before it
    root,       \* the RunOutputRoot instance the call returned or constructed
    out,        \* the last accessor call on root and the value it returned
    storage,    \* the backend instance, the filesystem, the S3 store, the last backend call
    checkout,   \* the git repositories, the patches directory, do_checkout's position
    promotion,  \* the input directory of promote_from_rc_to_final and main's position
    ci          \* configure_ci: the git diff, main's position, the files it wrote

vars == <<environ, call, prev, root, out, storage, checkout, promotion, ci>>

NoInfo == Raised("None", None, <<>>)

Call(op, github_repository, run_id, workflow_run, platform, bucket, response, info) ==
    [op |-> op, github_repository |-> github_repository, run_id |-> run_id,
     workflow_run |-> workflow_run, platform |-> platform, bucket |-> bucket,
     response |-> response, info |-> info, system |-> None]

NoCall ==
    Call("none", None, None, NoWorkflowRun, None, None, NoResponse, NoInfo)

NoOut ==
    [accessor |-> "none", artifact_group |-> None, filename |-> None, value |-> None,
     name |-> "none", raised |-> "None",
     staging_dir |-> PurePath(<<>>), path |-> PurePath(<<>>)]

\* No backend, an empty filesystem, an empty store and no backend method
\* called.  A method call is kept with its arguments, whether the S3 service
\* failed, the exception raised and the value returned.
NoStorage ==
    [backend |-> NoBackend, fs |-> <<>>, s3 |-> <<>>,
     op |-> [method |-> "none", artifact_key |-> None, name_filter |-> None,
             source_path |-> PurePath(<<>>), dest_path |-> PurePath(<<>>),
             client_fails |-> FALSE, raised |-> "None",
             returned |-> FALSE, listed |-> <<>>],
     uploads |-> <<>>]

\* do_checkout not called; promote_from_rc_to_final and configure_ci not run.
NoCheckout ==
    [pc |-> [at |-> "none", i |-> 0], log |-> <<>>]

NoPromotion ==
    [pc |-> "none"]

NoCi ==
    [pc |-> "none"]

Init ==
    /\ checkout = NoCheckout
    /\ promotion = NoPromotion
    /\ ci = NoCi
    /\ environ \in Environments
    /\ call = NoCall
    /\ prev = NoCall
    /\ root = NoRoot
    /\ out = NoOut
    /\ storage = NoStorage

\* The API is asked exactly when no workflow_run is passed and a run id is.
AnswersFor(workflow_run_id, workflow_run) ==
    IF workflow_run = NoWorkflowRun /\ workflow_run_id # None
    THEN Responses
    ELSE {NoResponse}

\* A direct call of _retrieve_bucket_info, its arguments drawn from the given sets.
Resolve(repositories, run_ids, workflow_runs) ==
    \E github_repository \in repositories,
       workflow_run_id \in run_ids,
       workflow_run \in workflow_runs :
      \E response \in AnswersFor(workflow_run_id, workflow_run) :
        /\ call' = Call("_retrieve_bucket_info", github_repository, workflow_run_id,
                        workflow_run, None, None, response,
                        _retrieve_bucket_info(github_repository, workflow_run_id,
                                              workflow_run, environ, response))
        /\ prev' = call
        /\ UNCHANGED <<checkout, promotion, ci, storage, environ, root, out>>

\* One process resolves once.
RetrieveBucketInfo ==
    /\ call.op = "none"
    /\ Resolve(Repositories, {None, str_run_id}, WorkflowRuns \cup {NoWorkflowRun})

Platforms ==
    {str_linux, str_windows}

\* RunOutputRoot.from_workflow_run(run_id, platform, github_repository, workflow_run)
FromWorkflowRun ==
    /\ call.op = "none"
    /\ \E github_repository \in Repositories,
          platform \in Platforms,
          workflow_run \in WorkflowRuns \cup {NoWorkflowRun} :
         \E response \in AnswersFor(str_run_id, workflow_run) :
           LET info == _retrieve_bucket_info(github_repository, str_run_id,
                                             workflow_run, environ, response)
           IN  /\ call' = Call("from_workflow_run", github_repository, str_run_id,
                               workflow_run, platform, None, response, info)
               /\ root' = from_workflow_run(str_run_id, platform, info)
               /\ prev' = call
               /\ UNCHANGED <<checkout, promotion, ci, storage, environ, out>>

HostSystems ==
    {<<"L", "i", "n", "u", "x">>,
     <<"W", "i", "n", "d", "o", "w", "s">>,
     <<"D", "a", "r", "w", "i", "n">>}

\* RunOutputRoot.for_local(run_id, platform, bucket), each argument given or left out.
ForLocal ==
    /\ call.op = "none"
    /\ \E run_id \in {Omitted, str_run_id},
          platform \in Platforms \cup {None},
          bucket \in {Omitted, str_custom_bucket},
          system \in HostSystems :
         /\ call' = [Call("for_local", None, run_id, NoWorkflowRun, platform, bucket,
                          NoResponse, NoInfo) EXCEPT !.system = system]
         /\ root' = for_local(run_id, platform, bucket, system)
         /\ prev' = call
         /\ UNCHANGED <<checkout, promotion, ci, storage, environ, out>>

Next ==
    \/ RetrieveBucketInfo
    \/ FromWorkflowRun
    \/ ForLocal

Spec ==
    Init /\ [][Next]_vars

(***************************************************************************)
(* Two resolutions in one process, on fewer inputs: no API request, the    *)
(* run dates of the tests and the cutover instant itself.                  *)
(***************************************************************************)
PairWorkflowRuns ==
    {WorkflowRun(str_run_id, h, u) :
        h \in {str_ROCm_TheRock, str_SomeUser_TheRock},
        u \in {str_before_cutover, NearCutover(0), str_after_cutover}}

RetrieveBucketInfoTwice ==
    /\ prev.op = "none"
    /\ Resolve(Repositories, {None}, PairWorkflowRuns \cup {NoWorkflowRun})

NextPair ==
    RetrieveBucketInfoTwice

SpecPair ==
    Init /\ [][NextPair]_vars

(***************************************************************************)
(* The accessors, called on an instance built with the constructor.        *)
(***************************************************************************)
str_ROCm_TheRock_slash ==
    <<"R", "O", "C", "m", "-", "T", "h", "e", "R", "o", "c", "k", "/">>
str_blas_lib ==
    <<"b", "l", "a", "s", "_", "l", "i", "b", "_", "g", "f", "x", "9", "4", "X", ".", "t", "a", "r", ".", "x", "z">>
str_build_log ==
    <<"b", "u", "i", "l", "d", ".", "l", "o", "g">>
str_gfx94X_dcgpu ==
    <<"g", "f", "x", "9", "4", "X", "-", "d", "c", "g", "p", "u">>
str_gfx110X_all ==
    <<"g", "f", "x", "1", "1", "0", "X", "-", "a", "l", "l">>

Buckets ==
    {str_therock_ci_artifacts, str_therock_artifacts_external, str_local}

ExternalRepos ==
    {<<>>, str_ROCm_TheRock_slash}

RunIds ==
    {str_run_id, str_local}

Filenames ==
    {str_blas_lib, str_build_log}

ArtifactGroups ==
    {str_gfx94X_dcgpu, str_gfx110X_all}

\* RunOutputRoot(bucket=..., external_repo=..., run_id=..., platform=...)
Construct ==
    /\ call.op = "none"
    /\ \E bucket \in Buckets, external_repo \in ExternalRepos,
          run_id \in RunIds, platform \in Platforms :
         /\ root' = RunOutputRoot(bucket, external_repo, run_id, platform)
         /\ call' = Call("RunOutputRoot", None, run_id, NoWorkflowRun, platform, bucket,
                         NoResponse, NoInfo)
         /\ prev' = call
         /\ UNCHANGED <<checkout, promotion, ci, storage, environ, out>>

\* An accessor call on root that returned value.
Returned(accessor, artifact_group, filename, value) ==
    /\ root # NoRoot
    /\ out' = [NoOut EXCEPT !.accessor = accessor, !.artifact_group = artifact_group,
                            !.filename = filename, !.value = value]
    /\ UNCHANGED <<checkout, promotion, ci, storage, environ, call, prev, root>>

GetPrefix ==
    Returned("prefix", None, None, prefix(root))

GetS3Uri ==
    Returned("s3_uri", None, None, s3_uri(root))

GetHttpsUrl ==
    Returned("https_url", None, None, https_url(root))

ArtifactS3Key ==
    \E f \in Filenames : Returned("artifact_s3_key", None, f, artifact_s3_key(root, f))

ArtifactS3Uri ==
    \E f \in Filenames : Returned("artifact_s3_uri", None, f, artifact_s3_uri(root, f))

ArtifactHttpsUrl ==
    \E f \in Filenames : Returned("artifact_https_url", None, f, artifact_https_url(root, f))

ArtifactIndexS3Key ==
    \E g \in ArtifactGroups :
        Returned("artifact_index_s3_key", g, None, artifact_index_s3_key(root, g))

ArtifactIndexS3Uri ==
    \E g \in ArtifactGroups :
        Returned("artifact_index_s3_uri", g, None, artifact_index_s3_uri(root, g))

ArtifactIndexUrl ==
    \E g \in ArtifactGroups :
        Returned("artifact_index_url", g, None, artifact_index_url(root, g))

LogsPrefix ==
    \E g \in ArtifactGroups : Returned("logs_prefix", g, None, logs_prefix(root, g))

LogsS3Uri ==
    \E g \in ArtifactGroups : Returned("logs_s3_uri", g, None, logs_s3_uri(root, g))

LogsHttpsUrl ==
    \E g \in ArtifactGroups : Returned("logs_https_url", g, None, logs_https_url(root, g))

LogFileS3Key ==
    \E g \in ArtifactGroups, f \in Filenames :
        Returned("log_file_s3_key", g, f, log_file_s3_key(root, g, f))

LogIndexUrl ==
    \E g \in ArtifactGroups : Returned("log_index_url", g, None, log_index_url(root, g))

BuildTimeAnalysisUrl ==
    \E g \in ArtifactGroups :
        Returned("build_time_analysis_url", g, None, build_time_analysis_url(root, g))

ManifestsPrefix ==
    \E g \in ArtifactGroups : Returned("manifests_prefix", g, None, manifests_prefix(root, g))

ManifestS3Key ==
    \E g \in ArtifactGroups : Returned("manifest_s3_key", g, None, manifest_s3_key(root, g))

ManifestS3Uri ==
    \E g \in ArtifactGroups : Returned("manifest_s3_uri", g, None, manifest_s3_uri(root, g))

ManifestUrl ==
    \E g \in ArtifactGroups : Returned("manifest_url", g, None, manifest_url(root, g))

\* root.name = "modified", for the attributes the tests assign to, the other
\* two fields, and a name that is not a field.
SetAttr ==
    /\ root # NoRoot
    /\ \E name \in {"bucket", "external_repo", "run_id", "platform", "extra"} :
         LET value == <<"m", "o", "d", "i", "f", "i", "e", "d">>
             done == setattr(root, name, value)
         IN  /\ root' = done.self
             /\ out' = [NoOut EXCEPT !.accessor = "__setattr__", !.name = name,
                                     !.value = value, !.raised = done.raised]
             /\ UNCHANGED <<checkout, promotion, ci, storage, environ, call, prev>>

\* root.local_path(staging_dir), for the staging directory of the tests and a
\* relative one.
LocalPath ==
    /\ root # NoRoot
    /\ \E staging_dir \in {PurePath(<<"/", "t", "m", "p", "/", "s", "t", "a", "g", "i", "n", "g">>),
                          PurePath(<<"s", "t", "a", "g", "i", "n", "g">>)} :
         /\ out' = [NoOut EXCEPT !.accessor = "local_path",
                                 !.staging_dir = staging_dir,
                                 !.path = local_path(root, staging_dir)]
         /\ UNCHANGED <<checkout, promotion, ci, storage, environ, call, prev, root>>

NextPaths ==
    \/ Construct
    \/ GetPrefix
    \/ GetS3Uri
    \/ GetHttpsUrl
    \/ ArtifactS3Key
    \/ ArtifactS3Uri
    \/ ArtifactHttpsUrl
    \/ ArtifactIndexS3Key
    \/ ArtifactIndexS3Uri
    \/ ArtifactIndexUrl
    \/ LogsPrefix
    \/ LogsS3Uri
    \/ LogsHttpsUrl
    \/ LogFileS3Key
    \/ LogIndexUrl
    \/ BuildTimeAnalysisUrl
    \/ ManifestsPrefix
    \/ ManifestS3Key
    \/ ManifestS3Uri
    \/ ManifestUrl
    \/ SetAttr
    \/ LocalPath

\* The accessors read no environment variable: one environment is enough.
InitPaths ==
    /\ Init
    /\ environ = [GITHUB_REPOSITORY |-> None, IS_PR_FROM_FORK |-> None,
                  RELEASE_TYPE |-> None]

SpecPaths ==
    InitPaths /\ [][NextPaths]_vars

(***************************************************************************)
(* The backends, each built on a run root and called once.  The staging    *)
(* directory mirrors the buckets: the same blobs are stored in both, any   *)
(* of the artifact and its sidecar for each run root and, for the first    *)
(* root, a second archive, an archive below logs/ and an archive of        *)
(* another run.  The filesystem also holds any of the file to upload and   *)
(* its sidecar.                                                            *)
(***************************************************************************)
BackendRoots ==
    {RunOutputRoot(str_therock_ci_artifacts, <<>>, str_run_id, str_linux),
     RunOutputRoot(str_therock_ci_artifacts_external, str_ROCm_TheRock_slash,
                   str_run_id, str_linux)}

StagingDir ==
    PurePath(<<"/", "t", "m", "p", "/", "s", "t", "a", "g", "i", "n", "g">>)

SourcePath ==
    PurePath(<<"/", "w", "o", "r", "k", "/", "o", "u", "t", "/", "b", "l", "a", "s", "_", "l", "i", "b", "_", "g", "f", "x", "9", "4", "X", ".", "t", "a", "r", ".", "x", "z">>)

DestPath ==
    PurePath(<<"/", "w", "o", "r", "k", "/", "i", "n", "/", "b", "l", "a", "s", "_", "l", "i", "b", "_", "g", "f", "x", "9", "4", "X", ".", "t", "a", "r", ".", "x", "z">>)

\* The blobs that may be stored at the start: bucket, key and contents.
StoredBlobs ==
    LET first == RunOutputRoot(str_therock_ci_artifacts, <<>>, str_run_id, str_linux)
        other == RunOutputRoot(str_therock_ci_artifacts, <<>>, <<"1", "2", "4">>, str_linux)
        Blob(r, key, data) == [bucket |-> r.bucket, key |-> key, data |-> data]
    IN  {Blob(r, artifact_s3_key(r, str_blas_lib), "stored artifact") : r \in BackendRoots}
            \cup {Blob(r, artifact_s3_key(r, sha256sum(str_blas_lib)), "stored sidecar") :
                     r \in BackendRoots}
            \cup {Blob(first, artifact_s3_key(first, <<"b", "l", "a", "s", "l", "t", "_", "l", "i", "b", "_", "g", "f", "x", "9", "4", "X", ".", "t", "a", "r", ".", "z", "s", "t">>),
                       "second archive"),
                  Blob(first, log_file_s3_key(first, str_gfx94X_dcgpu, <<"b", "u", "i", "l", "d", "_", "l", "o", "g", "s", ".", "t", "a", "r", ".", "x", "z">>),
                       "archive of logs"),
                  Blob(other, artifact_s3_key(other, <<"a", "m", "d", "-", "l", "l", "v", "m", "_", "l", "i", "b", "_", "g", "e", "n", "e", "r", "i", "c", ".", "t", "a", "r", ".", "x", "z">>),
                       "archive of another run")}

\* The files to upload that may exist at the start: path and contents.
SourceFiles ==
    {[path |-> SourcePath, data |-> "artifact of the build"],
     [path |-> joinpath(path_parent(SourcePath), sha256sum(path_name(SourcePath))),
      data |-> "sidecar of the build"]}

InitBackend ==
    /\ checkout = NoCheckout
    /\ promotion = NoPromotion
    /\ ci = NoCi
    /\ environ = [GITHUB_REPOSITORY |-> None, IS_PR_FROM_FORK |-> None,
                  RELEASE_TYPE |-> None]
    /\ call = NoCall
    /\ prev = NoCall
    /\ root = NoRoot
    /\ out = NoOut
    /\ \E blobs \in SUBSET StoredBlobs, files \in SUBSET SourceFiles :
         LET staged == {[path |-> joinpath(StagingDir, b.key), data |-> b.data] : b \in blobs}
             objects == {[path |-> <<b.bucket, b.key>>, data |-> b.data] : b \in blobs}
             \* The function from the paths of a set of files to their contents.
             Holding(fileset) ==
                 [q \in {f.path : f \in fileset} |->
                     (CHOOSE f \in fileset : f.path = q).data]
         IN  storage = [NoStorage EXCEPT !.fs = Holding(staged \cup files),
                                         !.s3 = Holding(objects)]

\* backend = LocalDirectoryBackend(staging_dir, run_root)
NewLocalDirectoryBackend ==
    /\ storage.backend = NoBackend
    /\ \E run_root \in BackendRoots :
         /\ root' = run_root
         /\ storage' = [storage EXCEPT
                           !.backend = LocalDirectoryBackend(StagingDir, run_root)]
    /\ UNCHANGED <<checkout, promotion, ci, environ, call, prev, out>>

\* backend = S3Backend(run_root)
NewS3Backend ==
    /\ storage.backend = NoBackend
    /\ \E run_root \in BackendRoots :
         /\ root' = run_root
         /\ storage' = [storage EXCEPT !.backend = S3Backend(run_root)]
    /\ UNCHANGED <<checkout, promotion, ci, environ, call, prev, out>>

\* The call op of a method of the backend of the given kind, which did done.
BackendCalled(kind, op, done) ==
    /\ storage.backend.kind = kind
    /\ storage.op.method = "none"
    /\ storage' = [storage EXCEPT
                      !.fs = done.fs, !.s3 = done.s3,
                      !.op = [op EXCEPT
                                 !.raised = done.raised,
                                 !.returned = IF "returned" \in DOMAIN done
                                              THEN done.returned ELSE FALSE,
                                 !.listed = IF "listed" \in DOMAIN done
                                            THEN done.listed ELSE <<>>]]
    /\ UNCHANGED <<checkout, promotion, ci, environ, call, prev, root, out>>

LocalUploadArtifact ==
    BackendCalled("LocalDirectoryBackend",
                  [NoStorage.op EXCEPT !.method = "upload_artifact",
                                       !.source_path = SourcePath,
                                       !.artifact_key = str_blas_lib],
                  local_upload_artifact(storage.backend, storage.fs, storage.s3,
                                        SourcePath, str_blas_lib))

LocalDownloadArtifact ==
    BackendCalled("LocalDirectoryBackend",
                  [NoStorage.op EXCEPT !.method = "download_artifact",
                                       !.artifact_key = str_blas_lib,
                                       !.dest_path = DestPath],
                  local_download_artifact(storage.backend, storage.fs, storage.s3,
                                          str_blas_lib, DestPath))

LocalArtifactExists ==
    BackendCalled("LocalDirectoryBackend",
                  [NoStorage.op EXCEPT !.method = "artifact_exists",
                                       !.artifact_key = str_blas_lib],
                  local_artifact_exists(storage.backend, storage.fs, storage.s3,
                                        str_blas_lib))

\* The name_filter arguments: none, and the name of the first archive.
NameFilters ==
    {None, <<"b", "l", "a", "s">>}

LocalListArtifacts ==
    \E name_filter \in NameFilters :
        BackendCalled("LocalDirectoryBackend",
                      [NoStorage.op EXCEPT !.method = "list_artifacts",
                                           !.name_filter = name_filter],
                      local_list_artifacts(storage.backend, storage.fs, storage.s3,
                                           name_filter))

S3UploadArtifact ==
    \E client_fails \in BOOLEAN :
        BackendCalled("S3Backend",
                      [NoStorage.op EXCEPT !.method = "upload_artifact",
                                           !.source_path = SourcePath,
                                           !.artifact_key = str_blas_lib,
                                           !.client_fails = client_fails],
                      s3_upload_artifact(storage.backend, storage.fs, storage.s3,
                                         SourcePath, str_blas_lib, client_fails))

S3DownloadArtifact ==
    \E client_fails \in BOOLEAN :
        BackendCalled("S3Backend",
                      [NoStorage.op EXCEPT !.method = "download_artifact",
                                           !.artifact_key = str_blas_lib,
                                           !.dest_path = DestPath,
                                           !.client_fails = client_fails],
                      s3_download_artifact(storage.backend, storage.fs, storage.s3,
                                           str_blas_lib, DestPath, client_fails))

S3ArtifactExists ==
    \E client_fails \in BOOLEAN :
        BackendCalled("S3Backend",
                      [NoStorage.op EXCEPT !.method = "artifact_exists",
                                           !.artifact_key = str_blas_lib,
                                           !.client_fails = client_fails],
                      s3_artifact_exists(storage.backend, storage.fs, storage.s3,
                                         str_blas_lib, client_fails))

S3ListArtifacts ==
    \E name_filter \in NameFilters, client_fails \in BOOLEAN :
        BackendCalled("S3Backend",
                      [NoStorage.op EXCEPT !.method = "list_artifacts",
                                           !.name_filter = name_filter,
                                           !.client_fails = client_fails],
                      s3_list_artifacts(storage.backend, storage.fs, storage.s3,
                                        name_filter, client_fails))

NextBackend ==
    \/ NewLocalDirectoryBackend
    \/ NewS3Backend
    \/ LocalUploadArtifact
    \/ LocalDownloadArtifact
    \/ LocalArtifactExists
    \/ LocalListArtifacts
    \/ S3UploadArtifact
    \/ S3DownloadArtifact
    \/ S3ArtifactExists
    \/ S3ListArtifacts

SpecBackend ==
    InitBackend /\ [][NextBackend]_vars

(***************************************************************************)
(* Two callers of LocalDirectoryBackend.upload_artifact with the same      *)
(* artifact_key, each uploading a file of its own, statement by statement. *)
(* shutil.copy2 of the artifact is not atomic: it truncates the            *)
(* destination and writes the data piece by piece, here in two pieces, so  *)
(* an artifact's contents are a pair; a sidecar is one piece.              *)
(***************************************************************************)
\* The file each caller uploads.
UploadSources ==
    <<PurePath(<<"/", "w", "o", "r", "k", "/", "a", "/", "b", "l", "a", "s", "_", "l", "i", "b", "_", "g", "f", "x", "9", "4", "X", ".", "t", "a", "r", ".", "x", "z">>), PurePath(<<"/", "w", "o", "r", "k", "/", "b", "/", "b", "l", "a", "s", "_", "l", "i", "b", "_", "g", "f", "x", "9", "4", "X", ".", "t", "a", "r", ".", "x", "z">>)>>

InitUploads ==
    /\ checkout = NoCheckout
    /\ promotion = NoPromotion
    /\ ci = NoCi
    /\ environ = [GITHUB_REPOSITORY |-> None, IS_PR_FROM_FORK |-> None,
                  RELEASE_TYPE |-> None]
    /\ call = NoCall
    /\ prev = NoCall
    /\ out = NoOut
    /\ root \in BackendRoots
    /\ \E present \in SUBSET (1..Len(UploadSources)), hashed \in SUBSET (1..Len(UploadSources)) :
         LET sidecar(u) == joinpath(path_parent(UploadSources[u]),
                                    sha256sum(path_name(UploadSources[u])))
             files == {UploadSources[u] : u \in present} \cup {sidecar(u) : u \in hashed}
         IN  storage =
                [NoStorage EXCEPT
                    !.backend = LocalDirectoryBackend(StagingDir, root),
                    !.fs = [p \in files |->
                               LET u == CHOOSE v \in 1..Len(UploadSources) :
                                           p \in {UploadSources[v], sidecar(v)}
                               IN  IF p = UploadSources[u]
                                   THEN <<<<"artifact", u, 1>>, <<"artifact", u, 2>>>>
                                   ELSE <<<<"sidecar", u, 1>>>>],
                    !.uploads = [u \in 1..Len(UploadSources) |->
                                    [pc |-> "exists", source_path |-> UploadSources[u],
                                     artifact_key |-> str_blas_lib, raised |-> "None"]]]

\* Caller u went on to statement pc, leaving the filesystem fs.
UploadStep(u, pc, raised, fs) ==
    /\ storage' = [storage EXCEPT !.fs = fs,
                                  !.uploads[u].pc = pc,
                                  !.uploads[u].raised = raised]
    /\ UNCHANGED <<checkout, promotion, ci, environ, call, prev, root, out>>

\* if not source_path.exists(): raise FileNotFoundError
UploadCheckSource ==
    \E u \in DOMAIN storage.uploads :
        LET self == storage.uploads[u]
        IN  /\ self.pc = "exists"
            /\ IF self.source_path \in DOMAIN storage.fs
               THEN UploadStep(u, "copy2", "None", storage.fs)
               ELSE UploadStep(u, "done", "FileNotFoundError", storage.fs)

\* shutil.copy2(source_path, dest): the destination is opened, which
\* truncates it, and the first piece is written.
UploadCopyBegin ==
    \E u \in DOMAIN storage.uploads :
        LET self == storage.uploads[u]
            dest == joinpath(storage.backend.base_path, self.artifact_key)
        IN  /\ self.pc = "copy2"
            /\ UploadStep(u, "copy2 rest", "None",
                          (dest :> <<storage.fs[self.source_path][1]>>) @@ storage.fs)

\* shutil.copy2(source_path, dest): the second piece is written after the
\* first, and the file is closed.
UploadCopyEnd ==
    \E u \in DOMAIN storage.uploads :
        LET self == storage.uploads[u]
            dest == joinpath(storage.backend.base_path, self.artifact_key)
        IN  /\ self.pc = "copy2 rest"
            /\ UploadStep(u, "sha256sum", "None",
                          (dest :> <<storage.fs[dest][1], storage.fs[self.source_path][2]>>)
                              @@ storage.fs)

\* if sha_src.exists(): shutil.copy2(sha_src, base_path / f"{artifact_key}.sha256sum")
UploadCopySidecar ==
    \E u \in DOMAIN storage.uploads :
        LET self == storage.uploads[u]
            sha_src == joinpath(path_parent(self.source_path),
                                sha256sum(path_name(self.source_path)))
        IN  /\ self.pc = "sha256sum"
            /\ UploadStep(u, "done", "None",
                          IF sha_src \in DOMAIN storage.fs
                          THEN copy2(storage.fs, sha_src,
                                     joinpath(storage.backend.base_path,
                                              sha256sum(self.artifact_key)))
                          ELSE storage.fs)

NextUploads ==
    \/ UploadCheckSource
    \/ UploadCopyBegin
    \/ UploadCopyEnd
    \/ UploadCopySidecar

SpecUploads ==
    InitUploads /\ [][NextUploads]_vars

(***************************************************************************)
(* One call of create_backend_from_env, in an environment that also holds  *)
(* the variables it reads, each unset, empty or set.                       *)
(***************************************************************************)
BackendEnvironments ==
    [GITHUB_REPOSITORY : {None, str_SomeOrg_SomeRepo},
     IS_PR_FROM_FORK : {None},
     RELEASE_TYPE : {None},
     THEROCK_LOCAL_STAGING_DIR : {None, <<>>, <<"/", "t", "m", "p", "/", "s", "t", "a", "g", "i", "n", "g">>},
     THEROCK_RUN_ID : {None, <<>>, <<"7", "8", "9">>},
     GITHUB_RUN_ID : {None, str_run_id},
     THEROCK_PLATFORM : {None, <<>>, str_linux}]

InitFromEnv ==
    /\ checkout = NoCheckout
    /\ promotion = NoPromotion
    /\ ci = NoCi
    /\ environ \in BackendEnvironments
    /\ call = NoCall
    /\ prev = NoCall
    /\ root = NoRoot
    /\ out = NoOut
    /\ storage = NoStorage

\* backend = create_backend_from_env(run_id, platform), each argument given,
\* empty or left out; the API answers with a run of the repository or fails.
CreateBackendFromEnv ==
    /\ call.op = "none"
    /\ \E run_id \in {None, <<>>, <<"4", "5", "6">>},
          platform \in {None, <<>>, str_windows},
          system \in HostSystems,
          response \in {Response("None", 200, TRUE,
                                 WorkflowRun(str_run_id, str_SomeOrg_SomeRepo, str_after_cutover)),
                        Response("HTTPError", 0, FALSE, NoWorkflowRun)} :
         \E done \in {create_backend_from_env(run_id, platform, environ, system, response)} :
             /\ call' = [Call("create_backend_from_env", None, run_id, NoWorkflowRun,
                              platform, None, response, done.info)
                            EXCEPT !.system = system]
             /\ root' = done.run_root
             /\ storage' = [storage EXCEPT !.backend = done.backend,
                                           !.op.raised = done.raised]
             /\ prev' = call
             /\ UNCHANGED <<checkout, promotion, ci, environ, out>>

SpecFromEnv ==
    InitFromEnv /\ [][CreateBackendFromEnv]_vars

(***************************************************************************)
(* repo_management.py: do_checkout, do_hipify and do_save_patches over a   *)
(* root repository and its submodule.  A repository is its linear history  *)
(* of commits, oldest first, its tags (the index of the tagged commit, 0    *)
(* for a tag that does not exist) and whether git status lists changes.    *)
(* A commit is <<patchset, number>>; a patch file is its number in the     *)
(* file name and the commit it holds.                                      *)
(***************************************************************************)
TAG_UPSTREAM_DIFFBASE == "THEROCK_UPSTREAM_DIFFBASE"

TAG_HIPIFY_DIFFBASE == "THEROCK_HIPIFY_DIFFBASE"

HIPIFY_COMMIT_MESSAGE == "DO NOT SUBMIT: HIPIFY"

\* The most patch files a patchset directory holds.
MaxPatches == 2

\* The root repository first, then its submodules.
get_all_repositories == <<"pytorch", "third_party/fbgemm">>

list_submodules == Tail(get_all_repositories)

\* git rev-parse of a tag: 0 stands for None.
rev_parse(repo, rev) == repo.tags[rev]

\* git rev-list a..b: the commits after a, up to b.
rev_list(repo, a, b) == SubSeq(repo.commits, a + 1, b)

\* git format-patch -o: one numbered file for each commit, oldest first.
format_patch(revs) == {[name |-> k, commit |-> revs[k]] : k \in 1..Len(revs)}

\* rmtree of the patches directory, then the base and the hipified patches
\* written anew; exit is sys.exit(1).
save_repo_patches(repo) ==
    LET upstream_rev == rev_parse(repo, TAG_UPSTREAM_DIFFBASE)
        hipify_rev == rev_parse(repo, TAG_HIPIFY_DIFFBASE)
        HEAD == Len(repo.commits)
        hipified_revlist == IF hipify_rev # 0 THEN rev_list(repo, hipify_rev, HEAD)
                            ELSE <<>>
        base_revlist == IF hipify_rev # 0
                        THEN rev_list(repo, upstream_rev, hipify_rev - 1)
                        ELSE rev_list(repo, upstream_rev, HEAD)
    IN  IF upstream_rev = 0
        THEN [exit |-> TRUE, base |-> {}, hipified |-> {}]
        ELSE [exit |-> FALSE, base |-> format_patch(base_revlist),
              hipified |-> format_patch(hipified_revlist)]

\* patch_files.sort(key=lambda p: p.name), then git am of the files in order.
RECURSIVE apply_repo_patches(_, _)
apply_repo_patches(repo, patch_files) ==
    IF patch_files = {} THEN repo
    ELSE LET first == CHOOSE f \in patch_files : \A g \in patch_files : f.name <= g.name
         IN  apply_repo_patches([repo EXCEPT !.commits = Append(@, first.commit)],
                                patch_files \ {first})

\* The activities of do_checkout in the order it runs them.
do_checkout_hipified_patches_first(patch, hipify) ==
    <<"fetch", "checkout", "tag", "submodule update", "submodule foreach">>
    \o (IF patch THEN <<"base", "hipified">> ELSE <<>>)
    \o (IF hipify THEN <<"do_hipify", "commit">> ELSE <<>>)

do_checkout(patch, hipify) ==
    <<"fetch", "checkout", "tag", "submodule update", "submodule foreach">>
    \o (IF patch THEN <<"base">> ELSE <<>>)
    \o (IF hipify THEN <<"do_hipify", "commit">> ELSE <<>>)
    \o (IF patch THEN <<"hipified">> ELSE <<>>)

\* A checkout begins with nothing fetched.  The patches directory holds up to
\* MaxPatches base and hipified patches for each repository; build_amd names
\* the repositories build_amd.py changes files in.
InitCheckout ==
    /\ environ = [GITHUB_REPOSITORY |-> None, IS_PR_FROM_FORK |-> None,
                  RELEASE_TYPE |-> None]
    /\ call = NoCall
    /\ prev = NoCall
    /\ root = NoRoot
    /\ out = NoOut
    /\ storage = NoStorage
    /\ promotion = NoPromotion
    /\ ci = NoCi
    /\ LET all == {get_all_repositories[k] : k \in 1..Len(get_all_repositories)}
       IN  \E patch \in BOOLEAN, hipify \in BOOLEAN, fails \in BOOLEAN,
              build_amd \in SUBSET all,
              base \in [all -> 0..MaxPatches], hipified \in [all -> 0..MaxPatches] :
               checkout =
                   [patch |-> patch, hipify |-> hipify,
                    submodule_update_fails |-> fails, build_amd |-> build_amd,
                    repos |-> [r \in all |->
                                  [FETCH_HEAD |-> <<>>, commits |-> <<>>, status |-> FALSE,
                                   tags |-> (TAG_UPSTREAM_DIFFBASE :> 0)
                                            @@ (TAG_HIPIFY_DIFFBASE :> 0)]],
                    patches |-> [r \in all |->
                                    [base |-> {[name |-> k, commit |-> <<"base", k>>] :
                                                  k \in 1..base[r]},
                                     hipified |-> {[name |-> k, commit |-> <<"hipified", k>>] :
                                                      k \in 1..hipified[r]}]],
                    pc |-> [at |-> do_checkout(patch, hipify)[1], i |-> 1],
                    log |-> <<>>]

\* One step of do_checkout or do_save_patches: exec is what it ran.
CheckoutStep(at, pc, repos, patches, exec) ==
    /\ checkout.pc.at = at
    /\ checkout' = [checkout EXCEPT !.pc = pc, !.repos = repos, !.patches = patches,
                                    !.log = @ \o exec]
    /\ UNCHANGED <<environ, call, prev, root, out, storage, promotion, ci>>

\* The activity after at; do_checkout returns after the last.
Then(at) ==
    LET todo == do_checkout(checkout.patch, checkout.hipify)
        k == CHOOSE k \in 1..Len(todo) : todo[k] = at
    IN  [at |-> IF k < Len(todo) THEN todo[k + 1] ELSE "returned", i |-> 1]

\* The next repository of a loop over get_all_repositories, or what follows.
NextRepository(following) ==
    IF checkout.pc.i < Len(get_all_repositories)
    THEN [checkout.pc EXCEPT !.i = @ + 1]
    ELSE following

Exec(cmd, cwd, arg) ==
    [exec |-> cmd, cwd |-> cwd, arg |-> arg]

GitFetch ==
    LET src_dir == get_all_repositories[1]
    IN  CheckoutStep("fetch", Then("fetch"),
                     [checkout.repos EXCEPT ![src_dir].FETCH_HEAD = <<"upstream", 0>>],
                     checkout.patches, <<Exec("git fetch", src_dir, "origin")>>)

GitCheckout ==
    LET src_dir == get_all_repositories[1]
    IN  CheckoutStep("checkout", Then("checkout"),
                     [checkout.repos EXCEPT ![src_dir].commits = <<checkout.repos[src_dir].FETCH_HEAD>>],
                     checkout.patches, <<Exec("git checkout", src_dir, "FETCH_HEAD")>>)

GitTag ==
    LET src_dir == get_all_repositories[1]
    IN  CheckoutStep("tag", Then("tag"),
                     [checkout.repos EXCEPT
                         ![src_dir].tags[TAG_UPSTREAM_DIFFBASE] = Len(checkout.repos[src_dir].commits)],
                     checkout.patches, <<Exec("git tag", src_dir, TAG_UPSTREAM_DIFFBASE)>>)

\* git submodule update --init --recursive; sys.exit(1) when it fails.
GitSubmoduleUpdate ==
    LET src_dir == get_all_repositories[1]
        submodules == {list_submodules[k] : k \in 1..Len(list_submodules)}
    IN  CheckoutStep("submodule update",
                     IF checkout.submodule_update_fails THEN [at |-> "exit", i |-> 1]
                     ELSE Then("submodule update"),
                     IF checkout.submodule_update_fails THEN checkout.repos
                     ELSE [r \in DOMAIN checkout.repos |->
                              IF r \in submodules
                              THEN [checkout.repos[r] EXCEPT !.commits = <<<<"upstream", 0>>>>]
                              ELSE checkout.repos[r]],
                     checkout.patches, <<Exec("git submodule update", src_dir, "--init")>>)

\* git submodule foreach --recursive git tag, then
\* git_config_ignore_submodules, which changes no commit, tag or patch.
GitSubmoduleForeach ==
    LET src_dir == get_all_repositories[1]
        submodules == {list_submodules[k] : k \in 1..Len(list_submodules)}
    IN  CheckoutStep("submodule foreach", Then("submodule foreach"),
                     [r \in DOMAIN checkout.repos |->
                         IF r \in submodules
                         THEN [checkout.repos[r] EXCEPT
                                  !.tags[TAG_UPSTREAM_DIFFBASE] = Len(checkout.repos[r].commits)]
                         ELSE checkout.repos[r]],
                     checkout.patches,
                     <<Exec("git submodule foreach", src_dir, TAG_UPSTREAM_DIFFBASE)>>)

\* apply_all_patches, one repository a step: the root, then each submodule.
ApplyAllPatches(patchset_name) ==
    LET repo_path == get_all_repositories[checkout.pc.i]
        patch_files == checkout.patches[repo_path][patchset_name]
    IN  CheckoutStep(patchset_name, NextRepository(Then(patchset_name)),
                     [checkout.repos EXCEPT
                         ![repo_path] = apply_repo_patches(@, patch_files)],
                     checkout.patches,
                     IF patch_files = {} THEN <<>>
                     ELSE <<Exec("git am", repo_path, patchset_name)>>)

\* do_hipify runs build_amd.py, which changes files of some repositories.
DoHipify ==
    CheckoutStep("do_hipify", Then("do_hipify"),
                 [r \in DOMAIN checkout.repos |->
                     [checkout.repos[r] EXCEPT !.status = r \in checkout.build_amd]],
                 checkout.patches,
                 <<Exec("build_amd.py", get_all_repositories[1], "")>>)

\* do_hipify's loop: a module with changes is committed and tagged.
HipifyCommit ==
    LET module_path == get_all_repositories[checkout.pc.i]
        module == checkout.repos[module_path]
    IN  CheckoutStep("commit", NextRepository(Then("commit")),
                     IF ~module.status THEN checkout.repos
                     ELSE [checkout.repos EXCEPT
                              ![module_path] =
                                  [module EXCEPT
                                      !.commits = Append(@, <<HIPIFY_COMMIT_MESSAGE, 0>>),
                                      !.status = FALSE,
                                      !.tags[TAG_HIPIFY_DIFFBASE] = Len(module.commits) + 1]],
                     checkout.patches,
                     IF ~module.status THEN <<>>
                     ELSE <<Exec("git commit", module_path, HIPIFY_COMMIT_MESSAGE),
                            Exec("git tag", module_path, TAG_HIPIFY_DIFFBASE)>>)

\* do_save_patches after the checkout, one repository a step.
DoSavePatches ==
    LET repo_path == get_all_repositories[checkout.pc.i]
        saved == save_repo_patches(checkout.repos[repo_path])
    IN  \E at \in {"returned", "save_repo_patches"} :
            CheckoutStep(at,
                         IF saved.exit THEN [at |-> "exit", i |-> 1]
                         ELSE IF checkout.pc.i < Len(get_all_repositories)
                         THEN [at |-> "save_repo_patches", i |-> checkout.pc.i + 1]
                         ELSE [at |-> "saved", i |-> 1],
                         checkout.repos,
                         [checkout.patches EXCEPT
                             ![repo_path] = [base |-> saved.base, hipified |-> saved.hipified]],
                         IF saved.base = {} /\ saved.hipified = {} THEN <<>>
                         ELSE <<Exec("git format-patch", repo_path, "")>>)

NextCheckout ==
    \/ GitFetch
    \/ GitCheckout
    \/ GitTag
    \/ GitSubmoduleUpdate
    \/ GitSubmoduleForeach
    \/ ApplyAllPatches("base")
    \/ ApplyAllPatches("hipified")
    \/ DoHipify
    \/ HipifyCommit
    \/ DoSavePatches

SpecCheckout ==
    InitCheckout /\ [][NextCheckout]_vars

(***************************************************************************)
(* promote_from_rc_to_final.py: main over an input directory.  A directory *)
(* is a function from the names in it to what each is: a directory or a    *)
(* file, and the version its metadata (the wheel's METADATA, the archive's *)
(* PKG-INFO) states.                                                       *)
(***************************************************************************)
\* t in s
contains(s, t) ==
    \E i \in 1..(Len(s) - Len(t) + 1) : SubSeq(s, i, i + Len(t) - 1) = t

\* s.split(t, 1)[0]
split_1_0(s, t) ==
    IF contains(s, t)
    THEN LET i == CHOOSE k \in 1..(Len(s) - Len(t) + 1) :
                     /\ SubSeq(s, k, k + Len(t) - 1) = t
                     /\ \A j \in 1..(k - 1) : SubSeq(s, j, j + Len(t) - 1) # t
         IN  SubSeq(s, 1, i - 1)
    ELSE s

\* s.removesuffix(t)
removesuffix(s, t) ==
    IF endswith(s, t) THEN SubSeq(s, 1, Len(s) - Len(t)) ELSE s

\* fnmatch.fnmatch on POSIX for patterns of literal characters and *.
RECURSIVE fnmatch(_, _)
fnmatch(name, pat) ==
    IF pat = <<>> THEN name = <<>>
    ELSE IF Head(pat) = "*"
    THEN fnmatch(name, Tail(pat)) \/ (name # <<>> /\ fnmatch(Tail(name), pat))
    ELSE name # <<>> /\ Head(name) = Head(pat) /\ fnmatch(Tail(name), Tail(pat))

\* PurePath.suffixes of a name that starts with no dot.
suffixes(name) ==
    IF name # <<>> /\ name[Len(name)] = "." THEN <<>>
    ELSE LET parts == split(name, ".")
         IN  [k \in 1..(Len(parts) - 1) |-> <<".">> \o parts[k + 1]]

\* PurePath.suffix: from the last dot, unless it is the first or the last
\* character.
suffix(name) ==
    IF \E i \in 2..(Len(name) - 1) : name[i] = "."
    THEN LET i == CHOOSE k \in 2..(Len(name) - 1) :
                     name[k] = "." /\ \A j \in (k + 1)..Len(name) : name[j] # "."
         IN  IF name[Len(name)] = "." THEN <<>> ELSE SubSeq(name, i, Len(name))
    ELSE <<>>

\* promote_wheel by the version of the wheel: Version(...).local is what
\* follows "+", public what precedes it, base_version the release numbers.
promote_wheel(version) ==
    LET public == split_once(version, "+")[1]
        local == IF contains(version, <<"+">>) THEN split_once(version, "+")[2] ELSE None
        base_version ==
            IF \E i \in 1..Len(public) : ~IsDigit(public[i]) /\ public[i] # "."
            THEN SubSeq(public, 1,
                        (CHOOSE i \in 1..Len(public) :
                             /\ ~IsDigit(public[i]) /\ public[i] # "."
                             /\ \A j \in 1..(i - 1) : IsDigit(public[j]) \/ public[j] = ".") - 1)
            ELSE public
    IN  IF truthy(local)
        THEN IF ~contains(local, <<"r", "c">>)
             THEN [returned |-> FALSE, new_base_version |-> None, new_local_version |-> None]
             ELSE [returned |-> TRUE, new_base_version |-> public,
                   new_local_version |-> split_1_0(local, <<"r", "c">>)]
        ELSE IF ~contains(version, <<"r", "c">>)
             THEN [returned |-> FALSE, new_base_version |-> None, new_local_version |-> None]
             ELSE [returned |-> TRUE, new_base_version |-> base_version,
                   new_local_version |-> None]

\* promote_targz: the directory after it and what it returned.
promote_targz(filename, input_dir) ==
    LET package_name == removesuffix(filename, <<".", "t", "a", "r", ".", "g", "z">>)
        version == input_dir[filename].version
        base_version == split_1_0(version, <<"r", "c">>)
        isalpha(c) == \/ \E k \in 1..Len(LowerCase) : LowerCase[k] = c
                      \/ \E k \in 1..Len(UpperCase) : UpperCase[k] = c
        new_archive_name == removesuffix(package_name, version) \o base_version
    IN  IF \E i \in 1..Len(base_version) : isalpha(base_version[i])
        THEN [returned |-> FALSE, input_dir |-> input_dir]
        ELSE IF base_version = version
        THEN [returned |-> FALSE, input_dir |-> input_dir]
        ELSE [returned |-> TRUE,
              input_dir |-> ((new_archive_name \o <<".", "t", "a", "r", ".", "g", "z">>)
                                :> [is_dir |-> FALSE, version |-> base_version])
                            @@ input_dir]

\* os.remove
remove(input_dir, file) ==
    [f \in (DOMAIN input_dir) \ {file} |-> input_dir[f]]

\* One pass of main's loop, for file: the exception it raised, the directory
\* after it, whether the promotion returned True and the call of
\* change_wheel_version it made.
main_deleting_every_package(file, delete, input_dir) ==
    LET wheel == promote_wheel(input_dir[file].version)
        targz == promote_targz(file, input_dir)
        Pass(raised, dir, promoted, changed) ==
            [raised |-> raised, input_dir |-> dir, promoted |-> promoted, changed |-> changed]
    IN  IF input_dir[file].is_dir THEN Pass("None", input_dir, FALSE, {})
        ELSE IF suffix(file) = <<".", "w", "h", "l">>
        THEN Pass("None", IF delete THEN remove(input_dir, file) ELSE input_dir,
                  wheel.returned,
                  IF wheel.returned
                  THEN {<<file, wheel.new_base_version, wheel.new_local_version>>} ELSE {})
        ELSE IF suffixes(file) = <<>> THEN Pass("IndexError", input_dir, FALSE, {})
        ELSE IF suffixes(file)[Len(suffixes(file))] # <<".", "g", "z">> THEN Pass("None", input_dir, FALSE, {})
        ELSE IF Len(suffixes(file)) < 2 THEN Pass("IndexError", input_dir, FALSE, {})
        ELSE IF suffixes(file)[Len(suffixes(file)) - 1] # <<".", "t", "a", "r">>
        THEN Pass("None", input_dir, FALSE, {})
        ELSE Pass("None",
                  IF delete THEN remove(targz.input_dir, file)
                  ELSE targz.input_dir,
                  targz.returned, {})

main(file, delete, input_dir) ==
    LET wheel == promote_wheel(input_dir[file].version)
        targz == promote_targz(file, input_dir)
        Pass(raised, dir, promoted, changed) ==
            [raised |-> raised, input_dir |-> dir, promoted |-> promoted, changed |-> changed]
    IN  IF input_dir[file].is_dir THEN Pass("None", input_dir, FALSE, {})
        ELSE IF suffix(file) = <<".", "w", "h", "l">>
        THEN Pass("None", IF wheel.returned /\ delete THEN remove(input_dir, file) ELSE input_dir,
                  wheel.returned,
                  IF wheel.returned
                  THEN {<<file, wheel.new_base_version, wheel.new_local_version>>} ELSE {})
        ELSE IF suffixes(file) = <<>> THEN Pass("IndexError", input_dir, FALSE, {})
        ELSE IF suffixes(file)[Len(suffixes(file))] # <<".", "g", "z">> THEN Pass("None", input_dir, FALSE, {})
        ELSE IF Len(suffixes(file)) < 2 THEN Pass("IndexError", input_dir, FALSE, {})
        ELSE IF suffixes(file)[Len(suffixes(file)) - 1] # <<".", "t", "a", "r">>
        THEN Pass("None", input_dir, FALSE, {})
        ELSE Pass("None",
                  IF targz.returned /\ delete THEN remove(targz.input_dir, file)
                  ELSE targz.input_dir,
                  targz.returned, {})

\* The most entries the input directory holds when main is called.
MaxFiles == 3

\* What an input directory may hold: release candidates and final releases
\* as archives and as wheels, with and without a local version, a
\* development release, files that are no packages, and a directory.
Packages ==
    LET Entry(name, is_dir, version) ==
            [name |-> name, is_dir |-> is_dir, version |-> version]
    IN  {Entry(<<"r", "o", "c", "m", "-", "7", ".", "1", "0", ".", "0", "r", "c", "1", ".", "t", "a", "r", ".", "g", "z">>, FALSE, <<"7", ".", "1", "0", ".", "0", "r", "c", "1">>),
         Entry(<<"r", "o", "c", "m", "-", "7", ".", "1", "0", ".", "0", ".", "t", "a", "r", ".", "g", "z">>, FALSE, <<"7", ".", "1", "0", ".", "0">>),
         Entry(<<"r", "o", "c", "m", "-", "7", ".", "1", "0", ".", "0", ".", "d", "e", "v", "0", ".", "t", "a", "r", ".", "g", "z">>, FALSE, <<"7", ".", "1", "0", ".", "0", ".", "d", "e", "v", "0">>),
         Entry(<<"r", "o", "c", "m", "_", "s", "d", "k", "_", "c", "o", "r", "e", "-", "7", ".", "1", "0", ".", "0", "r", "c", "1", "-", "p", "y", "3", "-", "n", "o", "n", "e", "-", "a", "n", "y", ".", "w", "h", "l">>, FALSE, <<"7", ".", "1", "0", ".", "0", "r", "c", "1">>),
         Entry(<<"r", "o", "c", "m", "_", "s", "d", "k", "_", "c", "o", "r", "e", "-", "7", ".", "1", "0", ".", "0", "-", "p", "y", "3", "-", "n", "o", "n", "e", "-", "a", "n", "y", ".", "w", "h", "l">>, FALSE, <<"7", ".", "1", "0", ".", "0">>),
         Entry(<<"t", "o", "r", "c", "h", "-", "2", ".", "7", ".", "1", "+", "r", "o", "c", "m", "7", ".", "1", "0", ".", "0", "r", "c", "1", "-", "c", "p", "3", "1", "2", "-", "n", "o", "n", "e", "-", "a", "n", "y", ".", "w", "h", "l">>, FALSE, <<"2", ".", "7", ".", "1", "+", "r", "o", "c", "m", "7", ".", "1", "0", ".", "0", "r", "c", "1">>),
         Entry(<<"t", "o", "r", "c", "h", "-", "2", ".", "7", ".", "1", "+", "r", "o", "c", "m", "7", ".", "1", "0", ".", "0", "-", "c", "p", "3", "1", "2", "-", "n", "o", "n", "e", "-", "a", "n", "y", ".", "w", "h", "l">>, FALSE, <<"2", ".", "7", ".", "1", "+", "r", "o", "c", "m", "7", ".", "1", "0", ".", "0">>),
         Entry(<<"n", "o", "t", "e", "s", ".", "t", "x", "t">>, FALSE, None),
         Entry(<<"R", "E", "A", "D", "M", "E">>, FALSE, None),
         Entry(<<"r", "c", "1", ".", "w", "h", "l">>, TRUE, None)}

InitPromotion ==
    /\ environ = [GITHUB_REPOSITORY |-> None, IS_PR_FROM_FORK |-> None,
                  RELEASE_TYPE |-> None]
    /\ call = NoCall
    /\ prev = NoCall
    /\ root = NoRoot
    /\ out = NoOut
    /\ storage = NoStorage
    /\ checkout = NoCheckout
    /\ ci = NoCi
    /\ \E held \in SUBSET Packages, delete \in BOOLEAN, match_files \in {<<"*">>, <<"*", "r", "c", "1", "*">>} :
           /\ Cardinality(held) <= MaxFiles
           /\ promotion =
                  [pc |-> "glob", delete |-> delete, match_files |-> match_files,
                   input_dir |-> [f \in {p.name : p \in held} |->
                                     LET p == CHOOSE q \in held : q.name = f
                                     IN  [is_dir |-> p.is_dir, version |-> p.version]],
                   input_files |-> {p.name : p \in held},
                   files |-> {}, promoted |-> {}, changed |-> {}, raised |-> "None"]

\* files = input_dir.glob(match_files): the entries as they are when the
\* loop starts.
Glob ==
    /\ promotion.pc = "glob"
    /\ promotion' = [promotion EXCEPT
                        !.pc = "for",
                        !.files = {f \in DOMAIN promotion.input_dir :
                                      fnmatch(f, promotion.match_files)}]
    /\ UNCHANGED <<environ, call, prev, root, out, storage, checkout, ci>>

\* One pass of the loop, in the order the directory is scanned in.
ForFile ==
    /\ promotion.pc = "for"
    /\ \E file \in promotion.files :
           LET pass == main(file, promotion.delete, promotion.input_dir)
           IN  promotion' = [promotion EXCEPT
                                !.pc = IF pass.raised = "None" THEN "for" ELSE "raised",
                                !.raised = pass.raised,
                                !.input_dir = pass.input_dir,
                                !.files = promotion.files \ {file},
                                !.promoted = IF pass.promoted THEN promotion.promoted \cup {file}
                                             ELSE promotion.promoted,
                                !.changed = promotion.changed \cup pass.changed]
    /\ UNCHANGED <<environ, call, prev, root, out, storage, checkout, ci>>

MainReturns ==
    /\ promotion.pc = "for"
    /\ promotion.files = {}
    /\ promotion' = [promotion EXCEPT !.pc = "returned"]
    /\ UNCHANGED <<environ, call, prev, root, out, storage, checkout, ci>>

NextPromotion ==
    \/ Glob
    \/ ForFile
    \/ MainReturns

SpecPromotion ==
    InitPromotion /\ [][NextPromotion]_vars

(***************************************************************************)
(* configure_ci.py: main, given the environment, what subprocess.run of    *)
(* git diff --name-only did (the exception it raised, the lines of its     *)
(* stdout) and the two files main appends to.  PR_LABELS is unset: the     *)
(* labels are read and not used.                                          *)
(***************************************************************************)
is_path_skippable(path) ==
    LET SKIPPABLE_PATH_PATTERNS == <<<<"d", "o", "c", "s", "/", "*">>, <<"*", ".", "g", "i", "t", "i", "g", "n", "o", "r", "e">>, <<"*", ".", "m", "d">>, <<"*", "L", "I", "C", "E", "N", "S", "E">>>>
    IN  \E k \in 1..Len(SKIPPABLE_PATH_PATTERNS) : fnmatch(path, SKIPPABLE_PATH_PATTERNS[k])

check_for_non_skippable_path(paths) ==
    IF paths = None THEN FALSE
    ELSE \E i \in 1..Len(paths) : ~is_path_skippable(paths[i])

\* except TimeoutError catches the builtin TimeoutError only;
\* subprocess.TimeoutExpired and CalledProcessError are no subclasses of it.
get_modified_paths(run) ==
    IF run.raises = "None" THEN [raised |-> "None", returned |-> run.stdout]
    ELSE IF run.raises = "TimeoutError" THEN [raised |-> "None", returned |-> None]
    ELSE [raised |-> run.raises, returned |-> None]

\* json.dumps of a bool
json_dumps(b) ==
    IF b THEN str_true ELSE str_false

\* main: the exception that ended it, enable_build_jobs, the files after it.
main_ci(env, run, files) ==
    LET modified_paths == get_modified_paths(run)
        enable_build_jobs == check_for_non_skippable_path(modified_paths.returned)
    IN  IF modified_paths.raised # "None"
        THEN [raised |-> modified_paths.raised, enable_build_jobs |-> FALSE, files |-> files]
        ELSE IF modified_paths.returned = None
        THEN [raised |-> "TypeError", enable_build_jobs |-> FALSE, files |-> files]
        ELSE [raised |-> "None", enable_build_jobs |-> enable_build_jobs,
              files |-> [GITHUB_STEP_SUMMARY |->
                             IF truthy(env.GITHUB_STEP_SUMMARY)
                             THEN Append(files.GITHUB_STEP_SUMMARY,
                                         <<"enable_build_jobs", enable_build_jobs>>)
                             ELSE files.GITHUB_STEP_SUMMARY,
                         GITHUB_OUTPUT |->
                             IF truthy(env.GITHUB_OUTPUT)
                             THEN Append(files.GITHUB_OUTPUT,
                                         <<"e", "n", "a", "b", "l", "e", "_", "b", "u", "i", "l", "d", "_", "j", "o", "b", "s">> \o <<"=">>
                                             \o json_dumps(enable_build_jobs))
                             ELSE files.GITHUB_OUTPUT]]

\* The most paths git diff lists.
MaxPaths == 2

ModifiedPaths ==
    {<<"d", "o", "c", "s", "/", "i", "n", "d", "e", "x", ".", "r", "s", "t">>, <<"R", "E", "A", "D", "M", "E", ".", "m", "d">>, <<".", "g", "i", "t", "i", "g", "n", "o", "r", "e">>, <<"t", "h", "i", "r", "d", "_", "p", "a", "r", "t", "y", "/", "L", "I", "C", "E", "N", "S", "E">>,
     <<"b", "u", "i", "l", "d", "_", "t", "o", "o", "l", "s", "/", "c", "o", "n", "f", "i", "g", "u", "r", "e", "_", "c", "i", ".", "p", "y">>, <<"m", "y", "d", "o", "c", "s", "/", "a", ".", "t", "x", "t">>, <<"L", "I", "C", "E", "N", "S", "E", ".", "t", "x", "t">>, <<"s", "r", "c", "/", "d", "o", "c", "s", "/", "x", ".", "p", "y">>}

InitCi ==
    /\ environ = [GITHUB_REPOSITORY |-> None, IS_PR_FROM_FORK |-> None,
                  RELEASE_TYPE |-> None]
    /\ call = NoCall
    /\ prev = NoCall
    /\ root = NoRoot
    /\ out = NoOut
    /\ storage = NoStorage
    /\ checkout = NoCheckout
    /\ promotion = NoPromotion
    /\ \E raises \in {"None", "TimeoutExpired", "TimeoutError", "CalledProcessError"},
          n \in 0..MaxPaths,
          GITHUB_OUTPUT \in {None, <<>>, <<"/", "t", "m", "p", "/", "o", "u", "t", "p", "u", "t">>},
          GITHUB_STEP_SUMMARY \in {None, <<"/", "t", "m", "p", "/", "s", "u", "m", "m", "a", "r", "y">>},
          written \in {<<>>, <<<<"r", "e", "f", "=", "m", "a", "i", "n">>>>} :
           \E stdout \in [1..n -> ModifiedPaths] :
               /\ raises # "None" => n = 0
               /\ ci = [pc |-> "main",
                        env |-> [GITHUB_OUTPUT |-> GITHUB_OUTPUT,
                                 GITHUB_STEP_SUMMARY |-> GITHUB_STEP_SUMMARY],
                        run |-> [raises |-> raises, stdout |-> stdout],
                        files |-> [GITHUB_OUTPUT |-> written, GITHUB_STEP_SUMMARY |-> <<>>],
                        raised |-> "None", enable_build_jobs |-> FALSE]

ConfigureCi ==
    /\ ci.pc = "main"
    /\ LET done == main_ci(ci.env, ci.run, ci.files)
       IN  ci' = [ci EXCEPT !.pc = IF done.raised = "None" THEN "returned" ELSE "raised",
                            !.raised = done.raised,
                            !.enable_build_jobs = done.enable_build_jobs,
                            !.files = done.files]
    /\ UNCHANGED <<environ, call, prev, root, out, storage, checkout, promotion>>

SpecCi ==
    InitCi /\ [][ConfigureCi]_vars




(***************************************************************************)
(* What the properties below read off a call.                              *)
(***************************************************************************)
\* The call ran _retrieve_bucket_info and it returned.
Resolved(c) ==
    c.op \in {"_retrieve_bucket_info", "from_workflow_run"} /\ c.info.raised = "None"

\* The repository the call is about: the argument, else GITHUB_REPOSITORY,
\* else ROCm/TheRock.
RepositoryOf(c) ==
    IF c.github_repository # None THEN c.github_repository
    ELSE IF environ.GITHUB_REPOSITORY # None THEN environ.GITHUB_REPOSITORY
    ELSE <<"R", "O", "C", "m", "/", "T", "h", "e", "R", "o", "c", "k">>

\* The workflow-run metadata the call had: the record passed to it, else the
\* record the API answered with (NoWorkflowRun when neither).
MetadataOf(c) ==
    IF c.workflow_run # NoWorkflowRun THEN c.workflow_run ELSE c.response.json

HasMetadata(c) ==
    MetadataOf(c) # NoWorkflowRun

\* The run is from a fork: by the metadata when there is any, else by the flag.
FromFork(c) ==
    IF HasMetadata(c)
    THEN MetadataOf(c).head_repository.full_name # RepositoryOf(c)
    ELSE environ.IS_PR_FROM_FORK = <<"t", "r", "u", "e">>

\* "{owner}-{name}/" of an "owner/name": the slash becomes a hyphen, a slash follows.
IsOwnerHyphenName(e, repository) ==
    /\ Len(e) = Len(repository) + 1
    /\ e[Len(e)] = "/"
    /\ \A i \in 1..Len(repository) :
          e[i] = (IF repository[i] = "/" THEN "-" ELSE repository[i])

CutoverText ==
    <<"2", "0", "2", "5", "-", "1", "1", "-", "1", "1", "T", "1", "6", ":", "1", "8", ":", "4", "8", "Z">>

\* a is an earlier instant than b, for two timestamps YYYY-MM-DDTHH:MM:SSZ.
TextBefore(a, b) ==
    /\ Len(a) = Len(b)
    /\ \E i \in 1..Len(a) :
          /\ \A j \in 1..(i - 1) : a[j] = b[j]
          /\ IsDigit(a[i]) /\ IsDigit(b[i])
          /\ DigitVal(a[i]) < DigitVal(b[i])

\* The run date of the call is known and at or before the cutover.
AtOrBeforeCutover(c) ==
    HasMetadata(c) /\ ~TextBefore(CutoverText, MetadataOf(c).updated_at)

\* A run of ROCm/therock-releases-internal that is not from a fork.
InternalReleases(c) ==
    /\ RepositoryOf(c) = <<"R", "O", "C", "m", "/", "t", "h", "e", "r", "o", "c", "k", "-", "r", "e", "l", "e", "a", "s", "e", "s", "-", "i", "n", "t", "e", "r", "n", "a", "l">>
    /\ ~FromFork(c)

CanonicalBuckets ==
    {<<"t", "h", "e", "r", "o", "c", "k", "-", "c", "i", "-", "a", "r", "t", "i", "f", "a", "c", "t", "s">>,
     <<"t", "h", "e", "r", "o", "c", "k", "-", "a", "r", "t", "i", "f", "a", "c", "t", "s">>}

ExternalBuckets ==
    {<<"t", "h", "e", "r", "o", "c", "k", "-", "c", "i", "-", "a", "r", "t", "i", "f", "a", "c", "t", "s", "-", "e", "x", "t", "e", "r", "n", "a", "l">>,
     <<"t", "h", "e", "r", "o", "c", "k", "-", "a", "r", "t", "i", "f", "a", "c", "t", "s", "-", "e", "x", "t", "e", "r", "n", "a", "l">>}

LegacyBuckets ==
    {<<"t", "h", "e", "r", "o", "c", "k", "-", "a", "r", "t", "i", "f", "a", "c", "t", "s">>,
     <<"t", "h", "e", "r", "o", "c", "k", "-", "a", "r", "t", "i", "f", "a", "c", "t", "s", "-", "e", "x", "t", "e", "r", "n", "a", "l">>}

ReleaseBucket(release_type) ==
    <<"t", "h", "e", "r", "o", "c", "k", "-">> \o release_type \o <<"-", "a", "r", "t", "i", "f", "a", "c", "t", "s">>

ReleaseTypeSet ==
    environ.RELEASE_TYPE # None /\ environ.RELEASE_TYPE # <<>>

(***************************************************************************)
(* C1.  For every RunOutputRoot, prefix is external_repo + run_id + "-" +  *)
(* platform, and every storage-key accessor returns prefix + "/" + its     *)
(* category subpath.                                                       *)
(***************************************************************************)
C1_StorageKeys ==
    LET p == root.external_repo \o root.run_id \o <<"-">> \o root.platform
        g == out.artifact_group
        f == out.filename
        v == out.value
    IN  /\ out.accessor = "prefix" => v = p
        /\ out.accessor = "artifact_s3_key" => v = p \o <<"/">> \o f
        /\ out.accessor = "artifact_index_s3_key" =>
              v = p \o <<"/", "i", "n", "d", "e", "x", "-">> \o g \o <<".", "h", "t", "m", "l">>
        /\ out.accessor = "logs_prefix" =>
              v = p \o <<"/", "l", "o", "g", "s", "/">> \o g
        /\ out.accessor = "log_file_s3_key" =>
              v = p \o <<"/", "l", "o", "g", "s", "/">> \o g \o <<"/">> \o f
        /\ out.accessor = "manifests_prefix" =>
              v = p \o <<"/", "m", "a", "n", "i", "f", "e", "s", "t", "s", "/">> \o g
        /\ out.accessor = "manifest_s3_key" =>
              v = p \o <<"/", "m", "a", "n", "i", "f", "e", "s", "t", "s", "/">> \o g
                    \o <<"/", "t", "h", "e", "r", "o", "c", "k", "_", "m", "a", "n", "i", "f", "e", "s", "t", ".", "j", "s", "o", "n">>

\* A log file key was computed on a root with an external_repo.
C1_Witness ==
    /\ out.accessor = "log_file_s3_key"
    /\ root.external_repo = <<"R", "O", "C", "m", "-", "T", "h", "e", "R", "o", "c", "k", "/">>
    /\ out.value = <<"R", "O", "C", "m", "-", "T", "h", "e", "R", "o", "c", "k", "/", "1", "2", "3", "-", "l", "i", "n", "u", "x", "/", "l", "o", "g", "s", "/", "g", "f", "x", "9", "4", "X", "-", "d", "c", "g", "p", "u", "/", "b", "u", "i", "l", "d", ".", "l", "o", "g">>

(***************************************************************************)
(* C2.  Bucket resolution returns external_repo "" exactly when the        *)
(* repository is ROCm/TheRock and the run is not from a fork; in every     *)
(* other case it returns "{owner}-{name}/" built from github_repository.   *)
(***************************************************************************)
C2_ExternalRepo ==
    Resolved(call) =>
        LET canonical == RepositoryOf(call) = <<"R", "O", "C", "m", "/", "T", "h", "e", "R", "o", "c", "k">> /\ ~FromFork(call)
        IN  /\ canonical <=> call.info.external_repo = <<>>
            /\ ~canonical => IsOwnerHyphenName(call.info.external_repo, RepositoryOf(call))

\* A fork run of ROCm/TheRock resolved to "ROCm-TheRock/".
C2_Witness ==
    /\ Resolved(call)
    /\ RepositoryOf(call) = <<"R", "O", "C", "m", "/", "T", "h", "e", "R", "o", "c", "k">>
    /\ HasMetadata(call) /\ FromFork(call)
    /\ call.info.external_repo = <<"R", "O", "C", "m", "-", "T", "h", "e", "R", "o", "c", "k", "/">>

(***************************************************************************)
(* C3.  As claimed: with RELEASE_TYPE unset and metadata available, a run  *)
(* updated strictly before the cutover resolves to therock-artifacts       *)
(* (external_repo "") or therock-artifacts-external (external or fork),    *)
(* and a run updated at or after it to therock-ci-artifacts or             *)
(* therock-ci-artifacts-external.                                          *)
(***************************************************************************)
C3_AsClaimed ==
    (Resolved(call) /\ environ.RELEASE_TYPE = None /\ HasMetadata(call)) =>
        LET b == call.info.bucket
            canonical == call.info.external_repo = <<>>
        IN  IF TextBefore(MetadataOf(call).updated_at, CutoverText)
            THEN b = (IF canonical
                      THEN <<"t", "h", "e", "r", "o", "c", "k", "-", "a", "r", "t", "i", "f", "a", "c", "t", "s">>
                      ELSE <<"t", "h", "e", "r", "o", "c", "k", "-", "a", "r", "t", "i", "f", "a", "c", "t", "s", "-", "e", "x", "t", "e", "r", "n", "a", "l">>)
            ELSE b = (IF canonical
                      THEN <<"t", "h", "e", "r", "o", "c", "k", "-", "c", "i", "-", "a", "r", "t", "i", "f", "a", "c", "t", "s">>
                      ELSE <<"t", "h", "e", "r", "o", "c", "k", "-", "c", "i", "-", "a", "r", "t", "i", "f", "a", "c", "t", "s", "-", "e", "x", "t", "e", "r", "n", "a", "l">>)

(***************************************************************************)
(* C3, amended.  With RELEASE_TYPE unset and metadata available, a run     *)
(* updated at or before the cutover resolves to therock-artifacts          *)
(* (external_repo "") or therock-artifacts-external (external or fork),    *)
(* and a run updated strictly after it to therock-ci-artifacts or          *)
(* therock-ci-artifacts-external; the external case excludes the runs of   *)
(* ROCm/therock-releases-internal that are not from a fork.                *)
(***************************************************************************)
C3_Cutover ==
    (/\ Resolved(call) /\ environ.RELEASE_TYPE = None /\ HasMetadata(call)
     /\ ~InternalReleases(call)) =>
        LET b == call.info.bucket
            canonical == call.info.external_repo = <<>>
        IN  IF AtOrBeforeCutover(call)
            THEN b = (IF canonical
                      THEN <<"t", "h", "e", "r", "o", "c", "k", "-", "a", "r", "t", "i", "f", "a", "c", "t", "s">>
                      ELSE <<"t", "h", "e", "r", "o", "c", "k", "-", "a", "r", "t", "i", "f", "a", "c", "t", "s", "-", "e", "x", "t", "e", "r", "n", "a", "l">>)
            ELSE b = (IF canonical
                      THEN <<"t", "h", "e", "r", "o", "c", "k", "-", "c", "i", "-", "a", "r", "t", "i", "f", "a", "c", "t", "s">>
                      ELSE <<"t", "h", "e", "r", "o", "c", "k", "-", "c", "i", "-", "a", "r", "t", "i", "f", "a", "c", "t", "s", "-", "e", "x", "t", "e", "r", "n", "a", "l">>)

\* A ROCm/TheRock run updated at the cutover instant itself resolved to the legacy bucket.
C3_Witness ==
    /\ Resolved(call) /\ environ.RELEASE_TYPE = None /\ HasMetadata(call)
    /\ MetadataOf(call).updated_at = CutoverText
    /\ call.info.external_repo = <<>>
    /\ call.info.bucket = <<"t", "h", "e", "r", "o", "c", "k", "-", "a", "r", "t", "i", "f", "a", "c", "t", "s">>

(***************************************************************************)
(* C4.  As claimed: whenever RELEASE_TYPE is set, resolution returns       *)
(* "therock-{RELEASE_TYPE}-artifacts" for every repository, fork status    *)
(* and run date, and external_repo still follows the repository/fork rule. *)
(***************************************************************************)
C4_AsClaimed ==
    (Resolved(call) /\ environ.RELEASE_TYPE # None) =>
        /\ call.info.bucket = ReleaseBucket(environ.RELEASE_TYPE)
        /\ C2_ExternalRepo

(***************************************************************************)
(* C4, amended.  Whenever RELEASE_TYPE is set to a non-empty value,        *)
(* resolution returns "therock-{RELEASE_TYPE}-artifacts" for every         *)
(* repository, fork status and run date (the legacy-date rule is never     *)
(* applied), and external_repo still follows the repository/fork rule.     *)
(***************************************************************************)
C4_ReleaseType ==
    (Resolved(call) /\ ReleaseTypeSet) =>
        /\ call.info.bucket = ReleaseBucket(environ.RELEASE_TYPE)
        /\ environ.RELEASE_TYPE = <<"n", "i", "g", "h", "t", "l", "y">> =>
              call.info.bucket = <<"t", "h", "e", "r", "o", "c", "k", "-", "n", "i", "g", "h", "t", "l", "y", "-", "a", "r", "t", "i", "f", "a", "c", "t", "s">>
        /\ environ.RELEASE_TYPE = <<"r", "e", "l", "e", "a", "s", "e">> =>
              call.info.bucket = <<"t", "h", "e", "r", "o", "c", "k", "-", "r", "e", "l", "e", "a", "s", "e", "-", "a", "r", "t", "i", "f", "a", "c", "t", "s">>
        /\ C2_ExternalRepo

\* A fork run from before the cutover resolved to the nightly bucket.
C4_Witness ==
    /\ Resolved(call)
    /\ environ.RELEASE_TYPE = <<"n", "i", "g", "h", "t", "l", "y">>
    /\ HasMetadata(call) /\ FromFork(call) /\ AtOrBeforeCutover(call)
    /\ call.info.external_repo # <<>>
    /\ call.info.bucket = <<"t", "h", "e", "r", "o", "c", "k", "-", "n", "i", "g", "h", "t", "l", "y", "-", "a", "r", "t", "i", "f", "a", "c", "t", "s">>

(***************************************************************************)
(* C5.  As claimed: with metadata available, is_pr_from_fork is true       *)
(* exactly when head_repository.full_name differs from github_repository   *)
(* and IS_PR_FROM_FORK has no effect on the result; a fork run targeting   *)
(* ROCm/TheRock resolves to external_repo "ROCm-TheRock/" and an external  *)
(* bucket, never to the canonical bucket.                                  *)
(***************************************************************************)
\* The result is the result of the same call with IS_PR_FROM_FORK unset.
FlagHasNoEffect(c) ==
    _retrieve_bucket_info(c.github_repository, c.run_id, c.workflow_run,
                          [environ EXCEPT !["IS_PR_FROM_FORK"] = None],
                          c.response) = c.info

ForkByMetadata(c) ==
    /\ c.info.is_pr_from_fork <=>
          MetadataOf(c).head_repository.full_name # RepositoryOf(c)
    /\ FlagHasNoEffect(c)

C5_AsClaimed ==
    (Resolved(call) /\ HasMetadata(call)) =>
        /\ ForkByMetadata(call)
        /\ (RepositoryOf(call) = <<"R", "O", "C", "m", "/", "T", "h", "e", "R", "o", "c", "k">> /\ call.info.is_pr_from_fork) =>
              /\ call.info.external_repo = <<"R", "O", "C", "m", "-", "T", "h", "e", "R", "o", "c", "k", "/">>
              /\ call.info.bucket \in ExternalBuckets
              /\ call.info.bucket \notin CanonicalBuckets

(***************************************************************************)
(* C5, amended.  With metadata available, is_pr_from_fork is true exactly  *)
(* when head_repository.full_name differs from github_repository and       *)
(* IS_PR_FROM_FORK has no effect on the result; a fork run targeting       *)
(* ROCm/TheRock resolves to external_repo "ROCm-TheRock/" and, when        *)
(* RELEASE_TYPE is unset or empty, to an external bucket, never to the     *)
(* canonical bucket; when RELEASE_TYPE is non-empty it resolves to         *)
(* "therock-{RELEASE_TYPE}-artifacts".                                     *)
(***************************************************************************)
C5_ForkByMetadata ==
    (Resolved(call) /\ HasMetadata(call)) =>
        /\ ForkByMetadata(call)
        /\ (RepositoryOf(call) = <<"R", "O", "C", "m", "/", "T", "h", "e", "R", "o", "c", "k">> /\ call.info.is_pr_from_fork) =>
              /\ call.info.external_repo = <<"R", "O", "C", "m", "-", "T", "h", "e", "R", "o", "c", "k", "/">>
              /\ ~ReleaseTypeSet =>
                    /\ call.info.bucket \in ExternalBuckets
                    /\ call.info.bucket \notin CanonicalBuckets
              /\ ReleaseTypeSet =>
                    call.info.bucket = ReleaseBucket(environ.RELEASE_TYPE)

\* A fork run of ROCm/TheRock, with IS_PR_FROM_FORK saying "false", resolved
\* to an external bucket.
C5_Witness ==
    /\ Resolved(call) /\ HasMetadata(call)
    /\ environ.IS_PR_FROM_FORK = <<"f", "a", "l", "s", "e">>
    /\ RepositoryOf(call) = <<"R", "O", "C", "m", "/", "T", "h", "e", "R", "o", "c", "k">>
    /\ MetadataOf(call).head_repository.full_name = <<"S", "o", "m", "e", "U", "s", "e", "r", "/", "T", "h", "e", "R", "o", "c", "k">>
    /\ call.info.is_pr_from_fork
    /\ call.info.external_repo = <<"R", "O", "C", "m", "-", "T", "h", "e", "R", "o", "c", "k", "/">>
    /\ call.info.bucket = <<"t", "h", "e", "r", "o", "c", "k", "-", "c", "i", "-", "a", "r", "t", "i", "f", "a", "c", "t", "s", "-", "e", "x", "t", "e", "r", "n", "a", "l">>

(***************************************************************************)
(* C6.  With RELEASE_TYPE unset, a run of ROCm/therock-releases-internal   *)
(* that is not from a fork resolves to "therock-artifacts-internal" for    *)
(* every run date; a fork run of that repository resolves to an external   *)
(* bucket.                                                                 *)
(***************************************************************************)
C6_InternalReleases ==
    (/\ Resolved(call) /\ environ.RELEASE_TYPE = None
     /\ RepositoryOf(call) = <<"R", "O", "C", "m", "/", "t", "h", "e", "r", "o", "c", "k", "-", "r", "e", "l", "e", "a", "s", "e", "s", "-", "i", "n", "t", "e", "r", "n", "a", "l">>) =>
        IF FromFork(call)
        THEN call.info.bucket \in ExternalBuckets
        ELSE call.info.bucket = <<"t", "h", "e", "r", "o", "c", "k", "-", "a", "r", "t", "i", "f", "a", "c", "t", "s", "-", "i", "n", "t", "e", "r", "n", "a", "l">>

\* A run of the internal releases repository from before the cutover, not
\* from a fork, resolved to the internal bucket.
C6_Witness ==
    /\ Resolved(call) /\ environ.RELEASE_TYPE = None
    /\ InternalReleases(call)
    /\ HasMetadata(call)
    /\ TextBefore(MetadataOf(call).updated_at, CutoverText)
    /\ call.info.bucket = <<"t", "h", "e", "r", "o", "c", "k", "-", "a", "r", "t", "i", "f", "a", "c", "t", "s", "-", "i", "n", "t", "e", "r", "n", "a", "l">>

(***************************************************************************)
(* C7.  As claimed: the bucket is determined solely by the triple          *)
(* (external_repo is non-empty, the RELEASE_TYPE value, the run date is    *)
(* at or before the cutover) and lies in one fixed set of names: two       *)
(* resolutions that agree on the triple return the same bucket.            *)
(***************************************************************************)
Triple(c) ==
    <<c.info.external_repo # <<>>, environ.RELEASE_TYPE, AtOrBeforeCutover(c)>>

BucketNames ==
    CanonicalBuckets \cup ExternalBuckets
        \cup {<<"t", "h", "e", "r", "o", "c", "k", "-", "a", "r", "t", "i", "f", "a", "c", "t", "s", "-", "i", "n", "t", "e", "r", "n", "a", "l">>}
        \cup (IF ReleaseTypeSet THEN {ReleaseBucket(environ.RELEASE_TYPE)} ELSE {})

C7_AsClaimed ==
    (Resolved(prev) /\ Resolved(call)) =>
        /\ call.info.bucket \in BucketNames
        /\ Triple(prev) = Triple(call) => prev.info.bucket = call.info.bucket

(***************************************************************************)
(* C7, amended.  The bucket is determined solely by the triple together    *)
(* with whether the run is a run of ROCm/therock-releases-internal that    *)
(* is not from a fork, and lies in one fixed set of names: two             *)
(* resolutions that agree on these four return the same bucket.            *)
(***************************************************************************)
C7_BucketDetermined ==
    (Resolved(prev) /\ Resolved(call)) =>
        /\ call.info.bucket \in BucketNames
        /\ (Triple(prev) = Triple(call) /\ InternalReleases(prev) = InternalReleases(call)) =>
              prev.info.bucket = call.info.bucket

\* Two resolutions for different repositories, one with a run date and one
\* without, agreed on the four and on the bucket.
C7_Witness ==
    /\ Resolved(prev) /\ Resolved(call)
    /\ RepositoryOf(prev) # RepositoryOf(call)
    /\ HasMetadata(prev) /\ ~HasMetadata(call)
    /\ Triple(prev) = Triple(call)
    /\ InternalReleases(prev) = InternalReleases(call)
    /\ prev.info.bucket = call.info.bucket

(***************************************************************************)
(* C8.  The external_repo produced by bucket resolution is injective in    *)
(* the repository identity: two distinct (owner, name) pairs never produce *)
(* the same non-empty external_repo.                                       *)
(***************************************************************************)
C8_Injective ==
    (/\ Resolved(prev) /\ Resolved(call)
     /\ RepositoryOf(prev) # RepositoryOf(call)
     /\ call.info.external_repo # <<>>) =>
        prev.info.external_repo # call.info.external_repo

(***************************************************************************)
(* C9.  Every external_repo returned by bucket resolution, and the         *)
(* external_repo of every RunOutputRoot built by from_workflow_run or      *)
(* for_local, is the empty string or ends with exactly one "/".            *)
(***************************************************************************)
EmptyOrOneSlash(e) ==
    \/ e = <<>>
    \/ /\ e[Len(e)] = "/"
       /\ Len(e) > 1 => e[Len(e) - 1] # "/"

C9_NamespacePrefix ==
    /\ Resolved(call) => EmptyOrOneSlash(call.info.external_repo)
    /\ (call.op \in {"from_workflow_run", "for_local"} /\ root # NoRoot) =>
          EmptyOrOneSlash(root.external_repo)

\* from_workflow_run built a root whose external_repo is not empty.
C9_Witness ==
    /\ call.op = "from_workflow_run"
    /\ root # NoRoot
    /\ root.external_repo = <<"S", "o", "m", "e", "O", "r", "g", "-", "S", "o", "m", "e", "R", "e", "p", "o", "/">>

(***************************************************************************)
(* C10.  With neither workflow metadata nor a run id given, bucket         *)
(* resolution makes no lookup, takes the fork status from IS_PR_FROM_FORK  *)
(* (default false), skips the date rule and never returns a legacy bucket. *)
(***************************************************************************)
C10_NoMetadata ==
    (/\ call.op = "_retrieve_bucket_info"
     /\ call.workflow_run = NoWorkflowRun
     /\ call.run_id = None) =>
        /\ call.info.requests = <<>>
        /\ Resolved(call) =>
              /\ environ.IS_PR_FROM_FORK = None => ~call.info.is_pr_from_fork
              /\ environ.IS_PR_FROM_FORK = <<"f", "a", "l", "s", "e">> => ~call.info.is_pr_from_fork
              /\ environ.IS_PR_FROM_FORK = <<"t", "r", "u", "e">> => call.info.is_pr_from_fork
              /\ call.info.curr_commit_dt = NoDatetime
              /\ call.info.bucket \notin LegacyBuckets

\* A resolution without metadata or run id took the fork status from the flag.
C10_Witness ==
    /\ call.op = "_retrieve_bucket_info"
    /\ call.workflow_run = NoWorkflowRun
    /\ call.run_id = None
    /\ Resolved(call)
    /\ environ.IS_PR_FROM_FORK = <<"t", "r", "u", "e">>
    /\ call.info.external_repo = <<"R", "O", "C", "m", "-", "T", "h", "e", "R", "o", "c", "k", "/">>
    /\ call.info.bucket = <<"t", "h", "e", "r", "o", "c", "k", "-", "c", "i", "-", "a", "r", "t", "i", "f", "a", "c", "t", "s", "-", "e", "x", "t", "e", "r", "n", "a", "l">>

(***************************************************************************)
(* C11.  If the metadata lookup attempted during resolution fails, the     *)
(* failure reaches the caller of from_workflow_run unmodified and no       *)
(* RunOutputRoot is returned: resolution does not continue with the fork   *)
(* flag, a default bucket or a skipped date rule, and it does not retry.   *)
(***************************************************************************)
\* The call asked the API for the workflow run.
LookupAttempted(c) ==
    /\ c.op \in {"_retrieve_bucket_info", "from_workflow_run"}
    /\ c.workflow_run = NoWorkflowRun
    /\ c.run_id # None

\* The request did not yield a workflow run: urlopen raised, the status is
\* not 200, or the body is not JSON.
LookupFailed(c) ==
    /\ LookupAttempted(c)
    /\ \/ c.response.raises # "None"
       \/ c.response.status # 200
       \/ ~c.response.valid_json

\* The error of the failed request itself.
LookupError(c) ==
    IF c.response.raises # "None" THEN c.response.raises
    ELSE IF c.response.status # 200 THEN "Exception"
    ELSE "JSONDecodeError"

C11_LookupFailure ==
    LookupFailed(call) =>
        /\ call.info.raised = LookupError(call)
        /\ Len(call.info.requests) = 1
        /\ call.info.external_repo = None
        /\ call.info.bucket = None
        /\ root = NoRoot

\* from_workflow_run asked the API, got a 403, and raised with IS_PR_FROM_FORK set.
C11_Witness ==
    /\ call.op = "from_workflow_run"
    /\ LookupFailed(call)
    /\ call.response.status = 403
    /\ environ.IS_PR_FROM_FORK = <<"t", "r", "u", "e">>
    /\ call.info.raised = "Exception"
    /\ root = NoRoot

(***************************************************************************)
(* C12.  An IS_PR_FROM_FORK value that is not a valid boolean-like string  *)
(* makes bucket resolution fail with an error; it is never silently taken  *)
(* as false.  (The flag is read when no workflow metadata is available.)   *)
(***************************************************************************)
\* str2bool accepts the value.
IsBooleanLike(value) ==
    str2bool(value).raised = "None"

\* The call read IS_PR_FROM_FORK: it ran resolution without metadata.
FlagConsulted(c) ==
    /\ c.op \in {"_retrieve_bucket_info", "from_workflow_run"}
    /\ c.workflow_run = NoWorkflowRun
    /\ c.run_id = None

C12_FailsFast ==
    (FlagConsulted(call) /\ ~IsBooleanLike(environ.IS_PR_FROM_FORK)) =>
        call.info.raised # "None"

(***************************************************************************)
(* C13.  A github_repository that is not of the form owner/name (no "/"    *)
(* or more than one "/") makes bucket resolution fail with an error and    *)
(* produce no external_repo, bucket or RunOutputRoot, whether or not       *)
(* workflow metadata was supplied.                                         *)
(***************************************************************************)
SlashCount(s) ==
    Cardinality({i \in 1..Len(s) : s[i] = "/"})

C13_MalformedRepository ==
    (/\ call.op \in {"_retrieve_bucket_info", "from_workflow_run"}
     /\ SlashCount(RepositoryOf(call)) # 1) =>
        /\ call.info.raised # "None"
        /\ call.info.external_repo = None
        /\ call.info.bucket = None
        /\ root = NoRoot

\* from_workflow_run, given metadata and a repository with two slashes, raised.
C13_Witness ==
    /\ call.op = "from_workflow_run"
    /\ call.workflow_run # NoWorkflowRun
    /\ call.github_repository = <<"R", "O", "C", "m", "/", "T", "h", "e", "R", "o", "c", "k", "/", "e", "x", "t", "r", "a">>
    /\ call.info.raised = "ValueError"
    /\ call.info.requests = <<>>
    /\ root = NoRoot

(***************************************************************************)
(* C14.  from_workflow_run performs the workflow-metadata lookup exactly   *)
(* when no workflow_run record is supplied: with a record it makes no      *)
(* request, without one it makes exactly one request, for                  *)
(* (github_repository, run_id), before the bucket is computed; the         *)
(* returned root carries the given run_id and platform verbatim.           *)
(***************************************************************************)
C14_LookupExactlyWhenNoRecord ==
    call.op = "from_workflow_run" =>
        /\ call.workflow_run # NoWorkflowRun => call.info.requests = <<>>
        /\ call.workflow_run = NoWorkflowRun =>
              call.info.requests =
                  <<<<"h", "t", "t", "p", "s", ":", "/", "/", "a", "p", "i", ".", "g", "i", "t", "h", "u", "b", ".", "c", "o", "m", "/", "r", "e", "p", "o", "s", "/">> \o RepositoryOf(call)
                        \o <<"/", "a", "c", "t", "i", "o", "n", "s", "/", "r", "u", "n", "s", "/">> \o call.run_id>>
        /\ root # NoRoot =>
              /\ root.run_id = call.run_id
              /\ root.platform = call.platform

\* from_workflow_run without a record asked once for the run of ROCm/TheRock
\* and computed the bucket from the date the API answered.
C14_Witness ==
    /\ call.op = "from_workflow_run"
    /\ call.workflow_run = NoWorkflowRun
    /\ call.github_repository = None /\ environ.GITHUB_REPOSITORY = None
    /\ call.info.requests = <<<<"h", "t", "t", "p", "s", ":", "/", "/", "a", "p", "i", ".", "g", "i", "t", "h", "u", "b", ".", "c", "o", "m", "/", "r", "e", "p", "o", "s", "/", "R", "O", "C", "m", "/", "T", "h", "e", "R", "o", "c", "k", "/", "a", "c", "t", "i", "o", "n", "s", "/", "r", "u", "n", "s", "/", "1", "2", "3">>>>
    /\ call.response.json.updated_at = <<"2", "0", "2", "5", "-", "1", "0", "-", "0", "1", "T", "1", "2", ":", "0", "0", ":", "0", "0", "Z">>
    /\ root = [bucket |-> <<"t", "h", "e", "r", "o", "c", "k", "-", "a", "r", "t", "i", "f", "a", "c", "t", "s">>, external_repo |-> <<>>,
               run_id |-> <<"1", "2", "3">>, platform |-> <<"w", "i", "n", "d", "o", "w", "s">>]

(***************************************************************************)
(* C15.  for_local never performs a metadata lookup and does not depend    *)
(* on the repository, fork-flag or release-type environment; it returns a  *)
(* root with external_repo "", the given run_id (default "local"), the     *)
(* given bucket (default "local"), and the given platform or, when none    *)
(* is given, the lower-cased host system name.                             *)
(***************************************************************************)
\* The lower-cased names of the host systems.
LowerCased ==
    [system \in HostSystems |->
        IF system = <<"L", "i", "n", "u", "x">> THEN <<"l", "i", "n", "u", "x">>
        ELSE IF system = <<"W", "i", "n", "d", "o", "w", "s">> THEN <<"w", "i", "n", "d", "o", "w", "s">>
        ELSE <<"d", "a", "r", "w", "i", "n">>]

C15_ForLocal ==
    call.op = "for_local" =>
        /\ call.info.requests = <<>>
        /\ root.external_repo = <<>>
        /\ root.run_id = (IF call.run_id = Omitted THEN <<"l", "o", "c", "a", "l">> ELSE call.run_id)
        /\ root.bucket = (IF call.bucket = Omitted THEN <<"l", "o", "c", "a", "l">> ELSE call.bucket)
        /\ root.platform = (IF call.platform = None
                            THEN LowerCased[call.system]
                            ELSE call.platform)

\* for_local with no argument, in an environment that names another
\* repository, a fork and a release type, on a Darwin host.
C15_Witness ==
    /\ call.op = "for_local"
    /\ call.run_id = Omitted /\ call.bucket = Omitted /\ call.platform = None
    /\ call.system = <<"D", "a", "r", "w", "i", "n">>
    /\ environ = [GITHUB_REPOSITORY |-> <<"S", "o", "m", "e", "O", "r", "g", "/", "S", "o", "m", "e", "R", "e", "p", "o">>,
                  IS_PR_FROM_FORK |-> <<"t", "r", "u", "e">>,
                  RELEASE_TYPE |-> <<"n", "i", "g", "h", "t", "l", "y">>]
    /\ root = [bucket |-> <<"l", "o", "c", "a", "l">>, external_repo |-> <<>>,
               run_id |-> <<"l", "o", "c", "a", "l">>, platform |-> <<"d", "a", "r", "w", "i", "n">>]

(***************************************************************************)
(* C16.  Immutability: after a RunOutputRoot is constructed, an attempt    *)
(* to reassign any of its four fields raises an error, and all fields and  *)
(* every accessor output are the same after the failed attempt as before   *)
(* it.                                                                     *)
(***************************************************************************)
\* Every accessor output of an instance, over all arguments.
AccessorOutputs(self) ==
    [plain |-> <<prefix(self), s3_uri(self), https_url(self)>>,
     by_file |-> [f \in Filenames |->
                    <<artifact_s3_key(self, f), artifact_s3_uri(self, f),
                      artifact_https_url(self, f)>>],
     by_group |-> [g \in ArtifactGroups |->
                    <<artifact_index_s3_key(self, g), artifact_index_s3_uri(self, g),
                      artifact_index_url(self, g), logs_prefix(self, g),
                      logs_s3_uri(self, g), logs_https_url(self, g),
                      log_index_url(self, g), build_time_analysis_url(self, g),
                      manifests_prefix(self, g), manifest_s3_key(self, g),
                      manifest_s3_uri(self, g), manifest_url(self, g)>>],
     by_group_and_file |-> [g \in ArtifactGroups, f \in Filenames |->
                              log_file_s3_key(self, g, f)]]

C16_Immutable ==
    [][(root # NoRoot /\ out'.accessor = "__setattr__") =>
          /\ out'.raised # "None"
          /\ root' = root
          /\ AccessorOutputs(root') = AccessorOutputs(root)]_vars

\* An assignment to run_id on a constructed root raised and left run_id as it was.
C16_Witness ==
    /\ out.accessor = "__setattr__"
    /\ out.name = "run_id"
    /\ out.raised = "FrozenInstanceError"
    /\ root # NoRoot
    /\ root.run_id = <<"1", "2", "3">>

(***************************************************************************)
(* C17.  For every RunOutputRoot and every category (run root, artifact    *)
(* file, artifact index, logs directory, manifest), the S3-URI accessor    *)
(* returns "s3://" + bucket + "/" + the category's storage key and the     *)
(* HTTPS accessor returns "https://" + bucket + ".s3.amazonaws.com/" +     *)
(* the same storage key.                                                   *)
(***************************************************************************)
\* The storage key of a category of root, for the arguments in out.
StorageKey(category) ==
    LET p == root.external_repo \o root.run_id \o <<"-">> \o root.platform
        g == out.artifact_group
        f == out.filename
    IN  CASE category = "root" -> p
          [] category = "artifact" -> p \o <<"/">> \o f
          [] category = "index" -> p \o <<"/", "i", "n", "d", "e", "x", "-">> \o g \o <<".", "h", "t", "m", "l">>
          [] category = "logs" -> p \o <<"/", "l", "o", "g", "s", "/">> \o g
          [] category = "manifest" -> p \o <<"/", "m", "a", "n", "i", "f", "e", "s", "t", "s", "/">> \o g \o <<"/", "t", "h", "e", "r", "o", "c", "k", "_", "m", "a", "n", "i", "f", "e", "s", "t", ".", "j", "s", "o", "n">>

S3UriOf(key) ==
    <<"s", "3", ":", "/", "/">> \o root.bucket \o <<"/">> \o key

HttpsUrlOf(key) ==
    <<"h", "t", "t", "p", "s", ":", "/", "/">> \o root.bucket \o <<".", "s", "3", ".", "a", "m", "a", "z", "o", "n", "a", "w", "s", ".", "c", "o", "m", "/">> \o key

C17_Representations ==
    /\ out.accessor = "s3_uri" => out.value = S3UriOf(StorageKey("root"))
    /\ out.accessor = "https_url" => out.value = HttpsUrlOf(StorageKey("root"))
    /\ out.accessor = "artifact_s3_uri" => out.value = S3UriOf(StorageKey("artifact"))
    /\ out.accessor = "artifact_https_url" => out.value = HttpsUrlOf(StorageKey("artifact"))
    /\ out.accessor = "artifact_index_s3_uri" => out.value = S3UriOf(StorageKey("index"))
    /\ out.accessor = "artifact_index_url" => out.value = HttpsUrlOf(StorageKey("index"))
    /\ out.accessor = "logs_s3_uri" => out.value = S3UriOf(StorageKey("logs"))
    /\ out.accessor = "logs_https_url" => out.value = HttpsUrlOf(StorageKey("logs"))
    /\ out.accessor = "manifest_s3_uri" => out.value = S3UriOf(StorageKey("manifest"))
    /\ out.accessor = "manifest_url" => out.value = HttpsUrlOf(StorageKey("manifest"))

\* The manifest URL of a root with an external_repo was computed.
C17_Witness ==
    /\ out.accessor = "manifest_url"
    /\ root.external_repo = <<"R", "O", "C", "m", "-", "T", "h", "e", "R", "o", "c", "k", "/">>
    /\ out.value = <<"h", "t", "t", "p", "s", ":", "/", "/", "t", "h", "e", "r", "o", "c", "k", "-", "c", "i", "-", "a", "r", "t", "i", "f", "a", "c", "t", "s", ".", "s", "3", ".", "a", "m", "a", "z", "o", "n", "a", "w", "s", ".", "c", "o", "m", "/", "R", "O", "C", "m", "-", "T", "h", "e", "R", "o", "c", "k", "/", "1", "2", "3", "-", "w", "i", "n", "d", "o", "w", "s", "/", "m", "a", "n", "i", "f", "e", "s", "t", "s", "/", "g", "f", "x", "1", "1", "0", "X", "-", "a", "l", "l", "/", "t", "h", "e", "r", "o", "c", "k", "_", "m", "a", "n", "i", "f", "e", "s", "t", ".", "j", "s", "o", "n">>

(***************************************************************************)
(* C18.  For every RunOutputRoot and staging directory,                    *)
(* local_path(staging_dir) taken relative to staging_dir equals prefix     *)
(* read as a path (an external_repo "owner-repo/" becomes a parent         *)
(* directory of "{run_id}-{platform}"), and s3_uri equals                  *)
(* "s3://{bucket}/{prefix}".                                               *)
(***************************************************************************)
\* prefix as a relative path: the directory of external_repo, if any, then
\* "{run_id}-{platform}".
PrefixParts ==
    LET leaf == root.run_id \o <<"-">> \o root.platform
        e == root.external_repo
    IN  IF e = <<>> THEN <<leaf>> ELSE <<SubSeq(e, 1, Len(e) - 1), leaf>>

C18_LocalPath ==
    /\ out.accessor = "local_path" =>
          /\ relative_to(out.path, out.staging_dir) =
                [raised |-> "None", value |-> [anchor |-> "", parts |-> PrefixParts]]
          /\ out.path = [anchor |-> out.staging_dir.anchor,
                         parts |-> out.staging_dir.parts \o PrefixParts]
    /\ out.accessor = "s3_uri" =>
          out.value = <<"s", "3", ":", "/", "/">> \o root.bucket \o <<"/">> \o root.external_repo
                          \o root.run_id \o <<"-">> \o root.platform

\* The local path of a root with an external_repo under /tmp/staging.
C18_Witness ==
    /\ out.accessor = "local_path"
    /\ root.external_repo = <<"R", "O", "C", "m", "-", "T", "h", "e", "R", "o", "c", "k", "/">>
    /\ out.staging_dir = [anchor |-> "/", parts |-> <<<<"t", "m", "p">>, <<"s", "t", "a", "g", "i", "n", "g">>>>]
    /\ out.path = [anchor |-> "/",
                   parts |-> <<<<"t", "m", "p">>, <<"s", "t", "a", "g", "i", "n", "g">>, <<"R", "O", "C", "m", "-", "T", "h", "e", "R", "o", "c", "k">>, <<"1", "2", "3", "-", "w", "i", "n", "d", "o", "w", "s">>>>]

(***************************************************************************)
(* C19.  As claimed: RunOutputRoot provides storage-key accessors for      *)
(* python packages, native packages and reports, returning                 *)
(* prefix/python/{artifact_group}/{filename},                              *)
(* prefix/packages/{artifact_group}/{filename} and                         *)
(* prefix/reports/{artifact_group}/{filename}.                             *)
(***************************************************************************)
\* "{prefix}/{category}/{artifact_group}/{filename}" of root.
CategoryKey(category, g, f) ==
    root.external_repo \o root.run_id \o <<"-">> \o root.platform
        \o <<"/">> \o category \o <<"/">> \o g \o <<"/">> \o f

PackageCategories ==
    {<<"p", "y", "t", "h", "o", "n">>, <<"p", "a", "c", "k", "a", "g", "e", "s">>, <<"r", "e", "p", "o", "r", "t", "s">>}

Contains(s, t) ==
    \E i \in 1..(Len(s) - Len(t) + 1) : SubSeq(s, i, i + Len(t) - 1) = t

StoredIn(st, key) ==
    IF st.backend.kind = "LocalDirectoryBackend"
    THEN [in |-> st.fs,
          at |-> [anchor |-> st.backend.staging_dir.anchor,
                  parts |-> st.backend.staging_dir.parts \o PrefixParts \o <<key>>]]
    ELSE [in |-> st.s3,
          at |-> <<root.bucket,
                   root.external_repo \o root.run_id \o <<"-">> \o root.platform
                       \o <<"/">> \o key>>]

\* A file beside path p, named n.
Beside(st, p, n) ==
    [in |-> st.fs,
     at |-> [anchor |-> p.anchor, parts |-> SubSeq(p.parts, 1, Len(p.parts) - 1) \o <<n>>]]

\* Where the call in st reads the artifact and the sidecar, and where it
\* writes them.
Transfer(st, op) ==
    LET key == op.artifact_key
        sidecar == key \o <<".", "s", "h", "a", "2", "5", "6", "s", "u", "m">>
    IN  IF op.method = "upload_artifact"
        THEN [artifact_from |-> [in |-> st.fs, at |-> op.source_path],
              sidecar_from |-> Beside(st, op.source_path,
                                      op.source_path.parts[Len(op.source_path.parts)]
                                          \o <<".", "s", "h", "a", "2", "5", "6", "s", "u", "m">>),
              sidecar_to |-> StoredIn(st, sidecar)]
        ELSE [artifact_from |-> StoredIn(st, key),
              sidecar_from |-> StoredIn(st, sidecar),
              sidecar_to |-> Beside(st, op.dest_path, sidecar)]

Exists(place) ==
    place.at \in DOMAIN place.in

C20_SidecarCopyIfExists ==
    [][(storage.op.method = "none" /\ storage'.op.method # "none") =>
          LET op == storage'.op
              before == Transfer(storage, op)
              after == Transfer(storage', op)
          IN  /\ (Exists(before.sidecar_from) /\ op.raised = "None") =>
                    /\ Exists(after.sidecar_to)
                    /\ after.sidecar_to.in[after.sidecar_to.at]
                          = before.sidecar_from.in[before.sidecar_from.at]
              /\ ~Exists(before.sidecar_from) =>
                    /\ (Exists(before.artifact_from) /\ ~op.client_fails) =>
                          op.raised = "None"
                    /\ Exists(after.sidecar_to) = Exists(before.sidecar_to)]_vars

(***************************************************************************)
(* C23.  Every failed GitHub API request (a 403, 404 or 500 status, a      *)
(* network error, a timeout, a body that is not JSON) is reported to the   *)
(* caller as a GitHubAPIError, and a successful request gives the parsed   *)
(* JSON value; no failure is returned as a normal value.                   *)
(***************************************************************************)
C23_GitHubAPIError ==
    LookupAttempted(call) =>
        IF LookupFailed(call)
        THEN call.info.raised = "GitHubAPIError"
        ELSE /\ call.info.raised # LookupError(call)
             /\ MetadataOf(call) = call.response.json

(***************************************************************************)
(* C26.  As claimed: with RELEASE_TYPE unset, a run whose updated_at is    *)
(* the cutover instant 2025-11-11T16:18:48Z itself resolves to             *)
(* therock-artifacts when external_repo is "" and to                       *)
(* therock-artifacts-external when it is not.                              *)
(***************************************************************************)
\* The call resolved a run updated at the cutover instant, RELEASE_TYPE unset.
ResolvedAtCutover(c) ==
    /\ Resolved(c)
    /\ environ.RELEASE_TYPE = None
    /\ HasMetadata(c)
    /\ MetadataOf(c).updated_at = CutoverText

C26_AsClaimed ==
    ResolvedAtCutover(call) =>
        call.info.bucket = (IF call.info.external_repo = <<>>
                            THEN <<"t", "h", "e", "r", "o", "c", "k", "-", "a", "r", "t", "i", "f", "a", "c", "t", "s">>
                            ELSE <<"t", "h", "e", "r", "o", "c", "k", "-", "a", "r", "t", "i", "f", "a", "c", "t", "s", "-", "e", "x", "t", "e", "r", "n", "a", "l">>)

(***************************************************************************)
(* C26, amended.  With RELEASE_TYPE unset, a run whose updated_at is the   *)
(* cutover instant itself resolves to therock-artifacts when external_repo *)
(* is "", to therock-artifacts-internal when it is a run of                *)
(* ROCm/therock-releases-internal that is not from a fork, and to          *)
(* therock-artifacts-external for every other external or fork run.        *)
(***************************************************************************)
C26_CutoverInstant ==
    ResolvedAtCutover(call) =>
        call.info.bucket = (IF call.info.external_repo = <<>>
                            THEN <<"t", "h", "e", "r", "o", "c", "k", "-", "a", "r", "t", "i", "f", "a", "c", "t", "s">>
                            ELSE IF InternalReleases(call)
                            THEN <<"t", "h", "e", "r", "o", "c", "k", "-", "a", "r", "t", "i", "f", "a", "c", "t", "s", "-", "i", "n", "t", "e", "r", "n", "a", "l">>
                            ELSE <<"t", "h", "e", "r", "o", "c", "k", "-", "a", "r", "t", "i", "f", "a", "c", "t", "s", "-", "e", "x", "t", "e", "r", "n", "a", "l">>)

\* A fork of ROCm/TheRock updated at the cutover instant resolved to the
\* legacy external bucket.
C26_Witness ==
    /\ ResolvedAtCutover(call)
    /\ RepositoryOf(call) = <<"R", "O", "C", "m", "/", "T", "h", "e", "R", "o", "c", "k">>
    /\ FromFork(call)
    /\ call.info.external_repo = <<"R", "O", "C", "m", "-", "T", "h", "e", "R", "o", "c", "k", "/">>
    /\ call.info.bucket = <<"t", "h", "e", "r", "o", "c", "k", "-", "a", "r", "t", "i", "f", "a", "c", "t", "s", "-", "e", "x", "t", "e", "r", "n", "a", "l">>

(***************************************************************************)
(* C21.  A request for an artifact whose key is well-formed but absent     *)
(* gives a not-found outcome, apart from a backend error:                  *)
(* download_artifact on a missing key raises and writes nothing at the     *)
(* destination, and artifact_exists returns false only when the blob is    *)
(* absent, never because the backend call itself failed.                   *)
(***************************************************************************)
C21_NotFound ==
    [][(storage.op.method = "none" /\ storage'.op.method # "none") =>
          LET op == storage'.op
              blob == StoredIn(storage, op.artifact_key)
          IN  /\ (op.method = "download_artifact" /\ ~Exists(blob)) =>
                    /\ op.raised # "None"
                    /\ storage'.fs = storage.fs
              /\ (op.method = "artifact_exists" /\ ~op.returned) =>
                    ~Exists(blob)]_vars

(***************************************************************************)
(* C27.  For the same stored objects, LocalDirectoryBackend.list_artifacts *)
(* and S3Backend.list_artifacts return the same list: the sorted,          *)
(* duplicate-free filenames that end in .tar.zst or .tar.xz, are stored    *)
(* directly at the run root of the run, and start with name_filter + "_"   *)
(* when name_filter is given; .sha256sum files, files in subdirectories    *)
(* and files of other runs are not listed.                                 *)
(***************************************************************************)
\* The names of the blobs stored directly at the run root.  The staging
\* directory holds the same blobs as the buckets, so they are read there.
NamesAtRunRoot ==
    {p.parts[Len(p.parts)] :
        p \in {q \in DOMAIN storage.fs :
                  /\ q.anchor = "/"
                  /\ q.parts = <<<<"t", "m", "p">>, <<"s", "t", "a", "g", "i", "n", "g">>>> \o PrefixParts
                                   \o <<q.parts[Len(q.parts)]>>}}

\* The filenames the claim says are listed.
ArtifactNames(name_filter) ==
    {f \in NamesAtRunRoot :
        /\ \E ext \in {<<".", "t", "a", "r", ".", "z", "s", "t">>, <<".", "t", "a", "r", ".", "x", "z">>} :
              Len(f) >= Len(ext) /\ SubSeq(f, Len(f) - Len(ext) + 1, Len(f)) = ext
        /\ name_filter # <<"None">> =>
              /\ Len(f) > Len(name_filter)
              /\ SubSeq(f, 1, Len(name_filter) + 1) = name_filter \o <<"_">>}

\* a sorts strictly before b: at the first position where they differ, a has
\* ended or has the character of the lower code point.
SortsBefore(a, b) ==
    LET CodePoints == <<"-", ".", "/", "0", "1", "2", "3", "4", "5", "6", "7", "8", "9",
                        "A", "B", "C", "D", "E", "F", "G", "H", "I", "J", "K", "L", "M",
                        "N", "O", "P", "Q", "R", "S", "T", "U", "V", "W", "X", "Y", "Z",
                        "_", "a", "b", "c", "d", "e", "f", "g", "h", "i", "j", "k", "l",
                        "m", "n", "o", "p", "q", "r", "s", "t", "u", "v", "w", "x", "y",
                        "z">>
        At(c) == CHOOSE i \in 1..Len(CodePoints) : CodePoints[i] = c
    IN  \E i \in 1..Len(b) :
           /\ i <= Len(a) + 1
           /\ \A j \in 1..(i - 1) : a[j] = b[j]
           /\ i <= Len(a) => At(a[i]) < At(b[i])

C27_SameListing ==
    (storage.op.method = "list_artifacts" /\ storage.op.raised = "None") =>
        LET listed == storage.op.listed
        IN  /\ {listed[i] : i \in 1..Len(listed)} = ArtifactNames(storage.op.name_filter)
            /\ \A i, j \in 1..Len(listed) : i < j => SortsBefore(listed[i], listed[j])

(***************************************************************************)
(* C28.  In LocalDirectoryBackend, after any sequence or interleaving of   *)
(* upload_artifact calls to the same artifact_key, once all calls have     *)
(* finished the stored artifact is the one written by a single upload and  *)
(* the stored sidecar, if present, comes from that same upload; a sidecar  *)
(* left by an earlier upload does not remain next to an artifact written   *)
(* by a later one.                                                         *)
(***************************************************************************)
\* Every call has returned or raised, and one at least has stored its file.
UploadsFinished ==
    /\ storage.uploads # <<>>
    /\ \A u \in DOMAIN storage.uploads : storage.uploads[u].pc = "done"
    /\ \E u \in DOMAIN storage.uploads : storage.uploads[u].raised = "None"

\* The stored artifact and sidecar are those of upload u.
StoredBy(u) ==
    LET source == storage.uploads[u].source_path
        beside == Beside(storage, source, source.parts[Len(source.parts)] \o <<".", "s", "h", "a", "2", "5", "6", "s", "u", "m">>)
        artifact == StoredIn(storage, storage.uploads[u].artifact_key)
        sidecar == StoredIn(storage, storage.uploads[u].artifact_key \o <<".", "s", "h", "a", "2", "5", "6", "s", "u", "m">>)
    IN  /\ storage.uploads[u].raised = "None"
        /\ Exists(artifact)
        /\ artifact.in[artifact.at] = storage.fs[source]
        /\ Exists(sidecar) =>
              /\ Exists(beside)
              /\ sidecar.in[sidecar.at] = beside.in[beside.at]

C28_LastWriteWins ==
    UploadsFinished => \E u \in DOMAIN storage.uploads : StoredBy(u)

(***************************************************************************)
(* C22.  create_backend_from_env returns a LocalDirectoryBackend built     *)
(* with RunOutputRoot.for_local, without a metadata lookup, exactly when   *)
(* THEROCK_LOCAL_STAGING_DIR is set to a non-empty value, and otherwise an *)
(* S3Backend built with RunOutputRoot.from_workflow_run; the run id is the *)
(* explicit argument, else THEROCK_RUN_ID, else GITHUB_RUN_ID, else        *)
(* "local", and the platform is the explicit argument, else                *)
(* THEROCK_PLATFORM, else the lower-cased host system name.  (An argument  *)
(* is explicit when it is neither None nor empty; a variable counts when   *)
(* it is set.)                                                             *)
(***************************************************************************)
\* The first of the candidates that is there, where arg is the argument and
\* the others are environment values, then the default.
FirstOf(arg, first, second, default) ==
    IF arg # <<"None">> /\ arg # <<>> THEN arg
    ELSE IF first # <<"None">> THEN first
    ELSE IF second # <<"None">> THEN second
    ELSE default

C22_BackendFromEnv ==
    call.op = "create_backend_from_env" =>
        LET run_id == FirstOf(call.run_id, environ.THEROCK_RUN_ID,
                              environ.GITHUB_RUN_ID, <<"l", "o", "c", "a", "l">>)
            platform == FirstOf(call.platform, environ.THEROCK_PLATFORM,
                                <<"None">>, LowerCased[call.system])
            staging == environ.THEROCK_LOCAL_STAGING_DIR
            backend == storage.backend
        IN  IF staging # <<"None">> /\ staging # <<>>
            THEN /\ backend.kind = "LocalDirectoryBackend"
                 /\ backend.run_root = root
                 /\ root = [bucket |-> <<"l", "o", "c", "a", "l">>, external_repo |-> <<>>,
                            run_id |-> run_id, platform |-> platform]
                 /\ call.info.requests = <<>>
            ELSE /\ Len(call.info.requests) = 1
                 /\ call.info.requests[1] =
                       <<"h", "t", "t", "p", "s", ":", "/", "/", "a", "p", "i", ".", "g", "i", "t", "h", "u", "b", ".", "c", "o", "m", "/", "r", "e", "p", "o", "s", "/">> \o RepositoryOf(call)
                           \o <<"/", "a", "c", "t", "i", "o", "n", "s", "/", "r", "u", "n", "s", "/">> \o run_id
                 /\ IF call.info.raised # "None"
                    THEN backend.kind = "none" /\ storage.op.raised = call.info.raised
                    ELSE /\ backend.kind = "S3Backend"
                         /\ backend.run_root = root
                         /\ root = [bucket |-> call.info.bucket,
                                    external_repo |-> call.info.external_repo,
                                    run_id |-> run_id, platform |-> platform]

\* With a staging directory set, no argument, THEROCK_RUN_ID unset and
\* GITHUB_RUN_ID set, a local backend for run 123 on the host's platform.
C22_Witness ==
    /\ call.op = "create_backend_from_env"
    /\ call.run_id = <<"None">> /\ call.platform = <<"None">>
    /\ environ.THEROCK_LOCAL_STAGING_DIR = <<"/", "t", "m", "p", "/", "s", "t", "a", "g", "i", "n", "g">>
    /\ environ.THEROCK_RUN_ID = <<"None">>
    /\ environ.GITHUB_RUN_ID = <<"1", "2", "3">>
    /\ environ.THEROCK_PLATFORM = <<"None">>
    /\ call.system = <<"W", "i", "n", "d", "o", "w", "s">>
    /\ storage.backend.kind = "LocalDirectoryBackend"
    /\ storage.backend.base_path = [anchor |-> "/", parts |-> <<<<"t", "m", "p">>, <<"s", "t", "a", "g", "i", "n", "g">>, <<"1", "2", "3", "-", "w", "i", "n", "d", "o", "w", "s">>>>]


(***************************************************************************)
(* do_checkout and do_save_patches.                                        *)
(***************************************************************************)
\* Where a command do_checkout ran stands in the order of C24: the fetch,
\* the checkout, the upstream diffbase tags, the base patches, hipify with
\* its commits and tags, the hipified patches.
Stage(e) ==
    CASE e.exec = "git fetch" -> 1
      [] e.exec = "git checkout" -> 2
      [] e.exec \in {"git submodule update", "git submodule foreach"} -> 3
      [] e.exec = "git tag" /\ e.arg = TAG_UPSTREAM_DIFFBASE -> 3
      [] e.exec = "git am" /\ e.arg = "base" -> 4
      [] e.exec \in {"build_amd.py", "git commit"} -> 5
      [] e.exec = "git tag" /\ e.arg = TAG_HIPIFY_DIFFBASE -> 5
      [] e.exec = "git am" /\ e.arg = "hipified" -> 6
      [] OTHER -> 7

\* The command tags the upstream diffbase in the repository.
TagsUpstream(e, repo_path) ==
    \/ e = Exec("git tag", repo_path, TAG_UPSTREAM_DIFFBASE)
    \/ /\ e = Exec("git submodule foreach", get_all_repositories[1], TAG_UPSTREAM_DIFFBASE)
       /\ \E k \in 1..Len(list_submodules) : list_submodules[k] = repo_path

\* C24: do_checkout runs its steps in a fixed order: the fetch and the
\* checkout of the ref, the tag THEROCK_UPSTREAM_DIFFBASE on the root and on
\* every submodule, the base patches, hipify with its commits and its tags
\* THEROCK_HIPIFY_DIFFBASE, then the hipified patches.  No patch is applied
\* to a repository before its upstream diffbase tag exists, and with hipify
\* enabled no hipified patch is applied before hipify has run and committed.
C24_FixedOrder ==
    LET log == checkout.log
    IN  /\ \A i, j \in 1..Len(log) : i < j => Stage(log[i]) <= Stage(log[j])
        /\ \A j \in 1..Len(log) :
               log[j].exec = "git am" =>
                   /\ \E i \in 1..(j - 1) : TagsUpstream(log[i], log[j].cwd)
                   /\ checkout.repos[log[j].cwd].tags[TAG_UPSTREAM_DIFFBASE] # 0
        /\ \A j \in 1..Len(log) :
               (checkout.hipify /\ log[j].exec = "git am" /\ log[j].arg = "hipified") =>
                   /\ \E i \in 1..(j - 1) : log[i].exec = "build_amd.py"
                   /\ \A r \in checkout.build_amd :
                          \E i \in 1..(j - 1) :
                              log[i] = Exec("git tag", r, TAG_HIPIFY_DIFFBASE)

\* do_checkout has returned after base patches, hipify with a commit and
\* hipified patches in the root and in the submodule.
C24_Witness ==
    /\ checkout.pc.at = "returned"
    /\ checkout.patch /\ checkout.hipify
    /\ \A k \in 1..Len(get_all_repositories) :
           LET r == get_all_repositories[k]
           IN  /\ r \in checkout.build_amd
               /\ \E i \in 1..Len(checkout.log) : checkout.log[i] = Exec("git am", r, "base")
               /\ \E i \in 1..Len(checkout.log) :
                      checkout.log[i] = Exec("git am", r, "hipified")

\* The commits of a repository that git am made from a patchset.
Applied(repo_path, patchset_name) ==
    SelectSeq(checkout.repos[repo_path].commits, LAMBDA c : c[1] = patchset_name)

\* C29: checkout followed by save-patches is a round trip for each
\* repository and submodule: after do_checkout has applied n base patches,
\* run hipify and applied m hipified patches, do_save_patches writes exactly
\* those n commits under base/ and those m under hipified/, the HIPIFY
\* commit in neither; also for a repository in which hipify changed nothing.
C29_RoundTrip ==
    (checkout.pc.at = "saved" /\ checkout.patch /\ checkout.hipify) =>
        \A r \in DOMAIN checkout.repos :
            /\ checkout.patches[r].base = format_patch(Applied(r, "base"))
            /\ checkout.patches[r].hipified = format_patch(Applied(r, "hipified"))

(***************************************************************************)
(* promote_from_rc_to_final.main.                                          *)
(***************************************************************************)
\* The input file is no longer in the directory.
Removed(file) ==
    file \in promotion.input_files /\ file \notin DOMAIN promotion.input_dir

\* C25: main removes an input file only if the delete flag is set and the
\* promotion of that file returned success.  A file whose version is no
\* release candidate or is the base version already, a directory and a file
\* that is neither .whl nor .tar.gz are never removed, and without the
\* delete flag no input file is removed.
C25_RemovedOnlyOnSuccess ==
    \A p \in Packages :
        Removed(p.name) =>
            /\ promotion.delete
            /\ p.name \in promotion.promoted
            /\ ~p.is_dir
            /\ endswith(p.name, <<".", "w", "h", "l">>) \/ endswith(p.name, <<".", "t", "a", "r", ".", "g", "z">>)
            /\ contains(p.version, <<"r", "c">>)

\* main has returned after removing a promoted wheel and a promoted archive
\* and leaving a refused file in place.
C25_Witness ==
    /\ promotion.pc = "returned"
    /\ Removed(<<"r", "o", "c", "m", "-", "7", ".", "1", "0", ".", "0", "r", "c", "1", ".", "t", "a", "r", ".", "g", "z">>)
    /\ Removed(<<"t", "o", "r", "c", "h", "-", "2", ".", "7", ".", "1", "+", "r", "o", "c", "m", "7", ".", "1", "0", ".", "0", "r", "c", "1", "-", "c", "p", "3", "1", "2", "-", "n", "o", "n", "e", "-", "a", "n", "y", ".", "w", "h", "l">>)
    /\ <<"r", "o", "c", "m", "-", "7", ".", "1", "0", ".", "0", ".", "t", "a", "r", ".", "g", "z">> \in promotion.input_files
    /\ promotion.files = {}

(***************************************************************************)
(* configure_ci.main.                                                      *)
(***************************************************************************)
\* The path matches none of docs/*, *.gitignore, *.md, *LICENSE.
NonSkippable(path) ==
    /\ ~startswith(path, <<"d", "o", "c", "s", "/">>)
    /\ ~endswith(path, <<".", "g", "i", "t", "i", "g", "n", "o", "r", "e">>)
    /\ ~endswith(path, <<".", "m", "d">>)
    /\ ~endswith(path, <<"L", "I", "C", "E", "N", "S", "E">>)

\* main completed and appended this value of enable_build_jobs to the file
\* GITHUB_OUTPUT names.
Wrote(value) ==
    /\ ci.pc = "returned"
    /\ ci.files.GITHUB_OUTPUT # <<>>
    /\ ci.files.GITHUB_OUTPUT[Len(ci.files.GITHUB_OUTPUT)] = <<"e", "n", "a", "b", "l", "e", "_", "b", "u", "i", "l", "d", "_", "j", "o", "b", "s", "=">> \o value

\* C30: configure_ci writes enable_build_jobs=true exactly when at least one
\* modified path matches none of the skippable patterns; when every modified
\* path is skippable, when no path was modified, or when the modified paths
\* could not be computed because the git diff timed out, it completes and
\* writes enable_build_jobs=false.
C30_EnableBuildJobs ==
    (ci.pc # "main" /\ truthy(ci.env.GITHUB_OUTPUT)) =>
        /\ ci.run.raises = "None" =>
               IF \E i \in 1..Len(ci.run.stdout) : NonSkippable(ci.run.stdout[i])
               THEN Wrote(<<"t", "r", "u", "e">>)
               ELSE Wrote(<<"f", "a", "l", "s", "e">>)
        /\ ci.run.raises = "TimeoutExpired" => Wrote(<<"f", "a", "l", "s", "e">>)
=============================================================================
